---- MODULE Spec2Model ----
(***************************************************************************)
(* Model of wizard.js (ProjectWizard): flag parsing, the prompt sequence,  *)
(* the resolution of the answers and the artifacts derived from them.      *)
(*                                                                         *)
(* JavaScript strings are TLA+ strings; a nullable value is a sequence of  *)
(* length at most one (Null == <<>>, a value v is <<v>>); the answers      *)
(* object is a function whose DOMAIN is the set of keys assigned so far,   *)
(* so that a key never assigned reads as undefined.                        *)
(***************************************************************************)
EXTENDS Naturals, Integers, Sequences, FiniteSets, TLC

(***************************************************************************)
(* Strings                                                                 *)
(***************************************************************************)
Ch(s, i) == SubSeq(s, i, i)

Includes(s, sub) ==
  \E i \in 1..(Len(s) + 1 - Len(sub)) : SubSeq(s, i, i + Len(sub) - 1) = sub

StartsWith(s, p) == Len(p) <= Len(s) /\ SubSeq(s, 1, Len(p)) = p

EndsWith(s, p) == Len(p) <= Len(s) /\ SubSeq(s, Len(s) - Len(p) + 1, Len(s)) = p

UpperChars == "ABCDEFGHIJKLMNOPQRSTUVWXYZ"

LowerChars == "abcdefghijklmnopqrstuvwxyz"

DigitChars == "0123456789"

\* The place of each letter in its alphabet.
UpperIndex == [c \in {Ch(UpperChars, i) : i \in 1..Len(UpperChars)} |->
                 CHOOSE i \in 1..Len(UpperChars) : Ch(UpperChars, i) = c]

LowerIndex == [c \in {Ch(LowerChars, i) : i \in 1..Len(LowerChars)} |->
                 CHOOSE i \in 1..Len(LowerChars) : Ch(LowerChars, i) = c]

DigitIndex == [c \in {Ch(DigitChars, i) : i \in 1..Len(DigitChars)} |->
                 CHOOSE i \in 1..Len(DigitChars) : Ch(DigitChars, i) = c]

IsUpper(c) == c \in DOMAIN UpperIndex

IsLowerAlpha(c) == c \in DOMAIN LowerIndex

IsDigit(c) == c \in DOMAIN DigitIndex

DigitValue(c) == DigitIndex[c] - 1

LowerOf(c) == IF IsUpper(c) THEN Ch(LowerChars, UpperIndex[c]) ELSE c

UpperOf(c) == IF IsLowerAlpha(c) THEN Ch(UpperChars, LowerIndex[c]) ELSE c

RECURSIVE ToLowerCase(_)
ToLowerCase(s) ==
  IF s = "" THEN "" ELSE LowerOf(Head(s)) \o ToLowerCase(Tail(s))

IsSpace(c) == c \in {" ", "\t", "\n"}

RECURSIVE TrimStart(_)
TrimStart(s) ==
  IF s # "" /\ IsSpace(Head(s)) THEN TrimStart(Tail(s)) ELSE s

RECURSIVE TrimEnd(_)
TrimEnd(s) ==
  IF s # "" /\ IsSpace(Ch(s, Len(s)))
    THEN TrimEnd(SubSeq(s, 1, Len(s) - 1))
    ELSE s

Trim(s) == TrimEnd(TrimStart(s))

\* s.split(sep) for a one-character separator: the pieces between separators.
RECURSIVE SplitFrom(_, _, _)
SplitFrom(s, sep, cur) ==
  IF s = "" THEN <<cur>>
  ELSE IF Head(s) = sep THEN <<cur>> \o SplitFrom(Tail(s), sep, "")
  ELSE SplitFrom(Tail(s), sep, cur \o Head(s))

Split(s, sep) == SplitFrom(s, sep, "")

\* The longest prefix of s made of decimal digits.
RECURSIVE DigitPrefix(_)
DigitPrefix(s) ==
  IF s # "" /\ IsDigit(Head(s)) THEN Head(s) \o DigitPrefix(Tail(s)) ELSE ""

RECURSIVE DigitsValue(_, _)
DigitsValue(s, acc) ==
  IF s = "" THEN acc ELSE DigitsValue(Tail(s), 10 * acc + DigitValue(Head(s)))

Null == << >>

Some(v) == <<v>>

\* parseInt(s, 10): leading white space and one sign are skipped, then the
\* longest run of digits is read; NaN (Null) when there is no digit there.
ParseInt(s) ==
  LET t == TrimStart(s)
      neg == t # "" /\ Head(t) = "-"
      u == IF t # "" /\ Head(t) \in {"-", "+"} THEN Tail(t) ELSE t
      d == DigitPrefix(u)
  IN IF d = "" THEN Null
     ELSE Some(IF neg THEN 0 - DigitsValue(d, 0) ELSE DigitsValue(d, 0))

\* The elements of a sequence, as a set.
Range(q) == {q[i] : i \in 1..Len(q)}

\* A JavaScript value used as a condition: null, undefined and '' are falsy.
Truthy(opt) == opt # Null /\ opt[1] # ""

(***************************************************************************)
(* Flag tables                                                             *)
(***************************************************************************)
PresetFlagKeys == <<"angular", "react", "vue", "node", "typescript", "java", "dotnet">>

PRESET_FLAG_MAP ==
  [angular |-> [nxPreset |-> "Angular", language |-> "JavaScript/TypeScript"],
   react |-> [nxPreset |-> "React", language |-> "JavaScript/TypeScript"],
   vue |-> [nxPreset |-> "Vue", language |-> "JavaScript/TypeScript"],
   node |-> [nxPreset |-> "Node", language |-> "JavaScript/TypeScript"],
   typescript |-> [nxPreset |-> "TypeScript", language |-> "JavaScript/TypeScript"],
   java |-> [nxPreset |-> "Java", language |-> "Java (Spring Boot/Quarkus)"],
   dotnet |-> [nxPreset |-> ".NET", language |-> ".NET"]]

ProjectTypeFlagKeys ==
  <<"web-app", "cli-tool", "library", "api-service", "mobile-app", "other">>

PROJECT_TYPE_FLAG_MAP ==
  ("web-app" :> "Web app") @@ ("cli-tool" :> "CLI tool") @@ ("library" :> "Library")
  @@ ("api-service" :> "API service") @@ ("mobile-app" :> "Mobile app")
  @@ ("other" :> "Other")

(***************************************************************************)
(* parseCliOptions                                                         *)
(***************************************************************************)
ParseStart ==
  [flags |-> {}, projectName |-> Null, dockerOverride |-> Null, dbOverride |-> Null,
   githubUser |-> Null, javaFramework |-> Null, exit |-> FALSE, error |-> ""]

\* A slip: the error is reported but the process goes on.
ParseWarn(st, msg) == [st EXCEPT !.error = msg]

ParseFail(st, msg) == [st EXCEPT !.exit = TRUE, !.error = msg]

\* The value of --name / --user: the text after '=', else the next argument
\* when that does not begin with '-'; '' stands for "no value".
FlagValue(args, i, rawValue) ==
  IF Truthy(rawValue) THEN rawValue[1]
  ELSE IF i + 1 <= Len(args) /\ args[i + 1] # "" /\ ~StartsWith(args[i + 1], "-")
    THEN args[i + 1]
  ELSE ""

FlagValueTakesNext(args, i, rawValue) ==
  /\ ~Truthy(rawValue)
  /\ i + 1 <= Len(args) /\ args[i + 1] # "" /\ ~StartsWith(args[i + 1], "-")

\* One iteration of the for loop over the arguments: the state after args[i].
ParseArg(args, i, st) ==
  LET arg == args[i]
      parts == Split(SubSeq(arg, 3, Len(arg)), "=")
      rawKey == parts[1]
      rawValue == IF Len(parts) >= 2 THEN Some(parts[2]) ELSE Null
      key == ToLowerCase(rawKey)
      value == FlagValue(args, i, rawValue)
  IN
  IF arg = "-h" THEN [st EXCEPT !.flags = @ \cup {"h"}]
  ELSE IF ~StartsWith(arg, "--") THEN st
  ELSE IF key \in {"name", "project-name"} THEN
    IF value = "" THEN ParseFail(st, "name") ELSE [st EXCEPT !.projectName = Some(Trim(value))]
  ELSE IF key \in {"user", "github-user"} THEN
    IF value = "" THEN ParseFail(st, "user") ELSE [st EXCEPT !.githubUser = Some(Trim(value))]
  ELSE IF key = "docker" THEN
    IF st.dockerOverride = Some(FALSE) THEN ParseFail(st, "docker")
    ELSE [st EXCEPT !.dockerOverride = Some(TRUE)]
  ELSE IF key = "no-docker" THEN
    IF st.dockerOverride = Some(TRUE) THEN ParseFail(st, "docker")
    ELSE [st EXCEPT !.dockerOverride = Some(FALSE)]
  ELSE IF key = "db" THEN
    IF st.dbOverride = Some(FALSE) THEN ParseFail(st, "db")
    ELSE [st EXCEPT !.dbOverride = Some(TRUE)]
  ELSE IF key = "no-db" THEN
    IF st.dbOverride = Some(TRUE) THEN ParseFail(st, "db")
    ELSE [st EXCEPT !.dbOverride = Some(FALSE)]
  ELSE IF key = "quarkus" THEN
    IF st.javaFramework # Null /\ st.javaFramework # Some("quarkus")
      THEN ParseFail(st, "framework")
      ELSE [st EXCEPT !.javaFramework = Some("quarkus")]
  ELSE IF key = "spring-boot" THEN
    IF st.javaFramework # Null /\ st.javaFramework # Some("spring-boot")
      THEN ParseFail(st, "framework")
      ELSE [st EXCEPT !.javaFramework = Some("spring-boot")]
  ELSE [st EXCEPT !.flags = @ \cup {key}]

\* The index the loop continues at after args[i].
ParseAdvance(args, i) ==
  LET arg == args[i]
      parts == Split(SubSeq(arg, 3, Len(arg)), "=")
      rawValue == IF Len(parts) >= 2 THEN Some(parts[2]) ELSE Null
      key == ToLowerCase(parts[1])
  IN IF /\ arg # "-h" /\ StartsWith(arg, "--")
        /\ key \in {"name", "project-name", "user", "github-user"}
        /\ FlagValueTakesNext(args, i, rawValue)
       THEN i + 2 ELSE i + 1

RECURSIVE ParseLoop(_, _, _)
ParseLoop(args, i, st) ==
  IF st.exit \/ i > Len(args) THEN st
  ELSE ParseLoop(args, ParseAdvance(args, i), ParseArg(args, i, st))

SelectFlags(keys, flags) == SelectSeq(keys, LAMBDA k : k \in flags)

parseCliOptions(args) ==
  LET st == ParseLoop(args, 1, ParseStart)
      presetFlags == SelectFlags(PresetFlagKeys, st.flags)
      projectTypeFlags == SelectFlags(ProjectTypeFlagKeys, st.flags)
      error ==
        IF st.exit THEN st.error
        ELSE IF Len(presetFlags) > 1 THEN "preset"
        ELSE IF st.javaFramework # Null /\ Len(presetFlags) = 1 /\ presetFlags[1] # "java"
          THEN "framework-preset"
        ELSE IF Len(projectTypeFlags) > 1 THEN "project-type"
        ELSE ""
  IN [exit |-> error # "",
      error |-> error,
      showHelp |-> "help" \in st.flags \/ "h" \in st.flags,
      nonInteractive |->
           Len(presetFlags) > 0 \/ Len(projectTypeFlags) > 0
        \/ st.projectName # Null \/ st.dockerOverride # Null \/ st.dbOverride # Null
        \/ st.githubUser # Null \/ st.javaFramework # Null,
      nxPreset |-> IF Len(presetFlags) > 0
                     THEN Some(PRESET_FLAG_MAP[presetFlags[1]].nxPreset) ELSE Null,
      language |-> IF Len(presetFlags) > 0
                     THEN Some(PRESET_FLAG_MAP[presetFlags[1]].language) ELSE Null,
      projectType |-> IF Len(projectTypeFlags) > 0
                        THEN Some(PROJECT_TYPE_FLAG_MAP[projectTypeFlags[1]]) ELSE Null,
      projectName |-> st.projectName,
      dockerOverride |-> st.dockerOverride,
      dbOverride |-> st.dbOverride,
      githubUser |-> st.githubUser,
      javaFramework |-> st.javaFramework]

(***************************************************************************)
(* The answers object                                                      *)
(***************************************************************************)
NoAnswers == [k \in {} |-> ""]

Has(a, k) == k \in DOMAIN a

Put(a, k, v) == [x \in DOMAIN a \cup {k} |-> IF x = k THEN v ELSE a[x]]

\* this.answers.k || d, for a key that holds a string when it is set.
StrOr(a, k, d) == IF Has(a, k) /\ a[k] # "" THEN a[k] ELSE d

\* this.answers.k as a condition, for a key that holds a boolean when it is set.
Flag(a, k) == Has(a, k) /\ a[k]

(***************************************************************************)
(* Language, framework and preset resolution                               *)
(***************************************************************************)
isJavaLanguage(a) ==
  LET raw == Trim(ToLowerCase(StrOr(a, "language", "")))
  IN \/ raw = "java"
     \/ StartsWith(raw, "java ")
     \/ StartsWith(raw, "java(")
     \/ Includes(raw, "spring")
     \/ Includes(raw, "quarkus")

\* A slip: the JavaScript/TypeScript family recognised by the prefix "Java".
ProfileJsByJavaPrefix(a) ==
  LET language == StrOr(a, "language", "")
  IN [language |-> language,
      isJsTs |-> Includes(language, "Java") \/ Includes(language, "TypeScript"),
      isPython |-> Includes(language, "Python"),
      isRust |-> Includes(language, "Rust"),
      isJava |-> isJavaLanguage(a),
      isDotnet |-> Includes(language, ".NET")]

getLanguageProfile(a) ==
  LET language == StrOr(a, "language", "")
  IN [language |-> language,
      isJsTs |-> Includes(language, "JavaScript") \/ Includes(language, "TypeScript"),
      isPython |-> Includes(language, "Python"),
      isRust |-> Includes(language, "Rust"),
      isJava |-> isJavaLanguage(a),
      isDotnet |-> Includes(language, ".NET")]

\* A slip: the workspace is recommended for web apps only.
RecommendNxForWebApps(a) == Has(a, "projectType") /\ Includes(a["projectType"], "Web app")

shouldRecommendNx(a) ==
  \/ \E lang \in {"JavaScript/TypeScript", "Web app"} :
        \/ Has(a, "language") /\ Includes(a["language"], lang)
        \/ Has(a, "projectType") /\ Includes(a["projectType"], lang)
  \/ Has(a, "language") /\ Includes(a["language"], "Java (Spring Boot/Quarkus)")

\* A slip: Java is not told apart from the other languages.
DefaultPresetWithoutJava(a) ==
  LET language == StrOr(a, "language", "")
  IN IF Includes(language, ".NET") THEN ".NET"
     ELSE IF Includes(language, "JavaScript") \/ Includes(language, "TypeScript")
       THEN "TypeScript"
     ELSE "Node"

getDefaultNxPreset(a) ==
  LET language == StrOr(a, "language", "")
  IN IF Includes(language, ".NET") THEN ".NET"
     ELSE IF Includes(language, "JavaScript") \/ Includes(language, "TypeScript")
       THEN "TypeScript"
     ELSE IF Includes(language, "Java (") THEN "Java"
     ELSE "Node"

normalizeJavaFramework(choice) ==
  LET raw == ToLowerCase(choice)
  IN IF Includes(raw, "spring") THEN Some("spring-boot")
     ELSE IF Includes(raw, "quarkus") THEN Some("quarkus")
     ELSE Null

\* this.answers.javaFramework || '': the key holds null or a string.
JavaFrameworkText(a) ==
  IF Has(a, "javaFramework") /\ a["javaFramework"] # Null THEN a["javaFramework"][1] ELSE ""

getJavaFramework(a) == normalizeJavaFramework(JavaFrameworkText(a))

getNormalizedNxPreset(a) ==
  LET raw == ToLowerCase(StrOr(a, "nxPreset", ""))
  IN IF Includes(raw, "angular") THEN "angular"
     ELSE IF Includes(raw, "react") THEN "react"
     ELSE IF Includes(raw, "vue") THEN "vue"
     ELSE IF Includes(raw, "node") THEN "node"
     ELSE IF Includes(raw, ".net") \/ Includes(raw, "dotnet") THEN "dotnet"
     ELSE IF Includes(raw, "typescript") \/ Includes(raw, "javascript") THEN "typescript"
     ELSE IF raw = "java" \/ StartsWith(raw, "java ") \/ StartsWith(raw, "java(") THEN "java"
     ELSE "typescript"

\* The fields of the preset table that decide what is generated.
getNxPresetDetails(a) ==
  LET presets ==
        [typescript |-> [label |-> "TypeScript", appGenerator |-> "", usesJs |-> TRUE],
         angular |-> [label |-> "Angular", appGenerator |-> "@nx/angular:application",
                      usesJs |-> TRUE],
         react |-> [label |-> "React", appGenerator |-> "@nx/react:application",
                    usesJs |-> TRUE],
         vue |-> [label |-> "Vue", appGenerator |-> "@nx/vue:application", usesJs |-> TRUE],
         node |-> [label |-> "Node", appGenerator |-> "@nx/node:application",
                   usesJs |-> TRUE],
         java |-> [label |-> "Java", appGenerator |-> "", usesJs |-> FALSE],
         dotnet |-> [label |-> ".NET", appGenerator |-> "@nx-dotnet/core:app",
                     usesJs |-> FALSE]]
  IN presets[getNormalizedNxPreset(a)]

\* A slip: outside workspace mode any API service is offered the database.
OfferForAnyApiService(a) ==
  IF Flag(a, "useNx") THEN getNormalizedNxPreset(a) \in {"node", "java", "dotnet"}
  ELSE LET profile == getLanguageProfile(a)
           projectType == ToLowerCase(StrOr(a, "projectType", ""))
       IN profile.isJava \/ profile.isDotnet \/ Includes(projectType, "api")

shouldOfferDatabaseService(a) ==
  IF Flag(a, "useNx") THEN getNormalizedNxPreset(a) \in {"node", "java", "dotnet"}
  ELSE LET profile == getLanguageProfile(a)
           projectType == ToLowerCase(StrOr(a, "projectType", ""))
       IN IF profile.isJava \/ profile.isDotnet THEN TRUE
          ELSE profile.isJsTs /\ Includes(projectType, "api")

(***************************************************************************)
(* Slug                                                                    *)
(***************************************************************************)
\* The characters the class [a-z0-9-_] accepts.
IsSlugChar(c) == IsLowerAlpha(c) \/ IsDigit(c) \/ c \in {"-", "_"}

RECURSIVE DropWhileNotSlug(_)
DropWhileNotSlug(s) ==
  IF s # "" /\ ~IsSlugChar(Head(s)) THEN DropWhileNotSlug(Tail(s)) ELSE s

\* .replace(/[^a-z0-9-_]+/g, '-')
RECURSIVE ReplaceNonSlugRuns(_)
ReplaceNonSlugRuns(s) ==
  IF s = "" THEN ""
  ELSE IF IsSlugChar(Head(s)) THEN Head(s) \o ReplaceNonSlugRuns(Tail(s))
  ELSE "-" \o ReplaceNonSlugRuns(DropWhileNotSlug(s))

RECURSIVE DropLeadingHyphens(_)
DropLeadingHyphens(s) ==
  IF s # "" /\ Head(s) = "-" THEN DropLeadingHyphens(Tail(s)) ELSE s

RECURSIVE DropTrailingHyphens(_)
DropTrailingHyphens(s) ==
  IF s # "" /\ Ch(s, Len(s)) = "-"
    THEN DropTrailingHyphens(SubSeq(s, 1, Len(s) - 1))
    ELSE s

\* .replace(/^-+|-+$/g, '')
StripHyphens(s) == DropTrailingHyphens(DropLeadingHyphens(s))

\* .replace(/--+/g, '-')
RECURSIVE CollapseHyphens(_)
CollapseHyphens(s) ==
  IF s = "" THEN ""
  ELSE IF Head(s) = "-" THEN "-" \o CollapseHyphens(DropLeadingHyphens(s))
  ELSE Head(s) \o CollapseHyphens(Tail(s))

\* A slip in the order of the replacements: the hyphens are stripped before
\* the other characters are turned into hyphens.
SlugStripFirst(a) ==
  LET raw == ToLowerCase(StrOr(a, "repoName", "my-project"))
      slug == CollapseHyphens(ReplaceNonSlugRuns(StripHyphens(raw)))
  IN IF slug # "" THEN slug ELSE "app"

getProjectSlug(a) ==
  LET raw == ToLowerCase(StrOr(a, "repoName", "my-project"))
      slug == CollapseHyphens(StripHyphens(ReplaceNonSlugRuns(raw)))
  IN IF slug # "" THEN slug ELSE "app"

(***************************************************************************)
(* Ports and container files                                               *)
(***************************************************************************)
\* A slip: the Python port is used in workspace mode as well.
BasePortPythonFirst(a) ==
  IF getLanguageProfile(a).isPython /\ ~isJavaLanguage(a) /\ ~Includes(StrOr(a, "language", ""), ".NET")
    THEN 8000
  ELSE IF Flag(a, "useNx")
    THEN LET nxPorts == [angular |-> 4200, react |-> 3000, vue |-> 5173, node |-> 3000,
                         typescript |-> 3000, java |-> 8080, dotnet |-> 5000]
         IN nxPorts[getNormalizedNxPreset(a)]
    ELSE LET profile == getLanguageProfile(a)
         IN IF profile.isJava THEN 8080
            ELSE IF profile.isDotnet THEN 5000
            ELSE 3000

getDockerBasePort(a) ==
  IF Flag(a, "useNx")
    THEN LET nxPorts == [angular |-> 4200, react |-> 3000, vue |-> 5173, node |-> 3000,
                         typescript |-> 3000, java |-> 8080, dotnet |-> 5000]
         IN nxPorts[getNormalizedNxPreset(a)]
    ELSE LET profile == getLanguageProfile(a)
         IN IF profile.isJava THEN 8080
            ELSE IF profile.isDotnet THEN 5000
            ELSE IF profile.isPython THEN 8000
            ELSE 3000

getDockerPort(a) == getDockerBasePort(a) + 1

IsAlpine(a) == Has(a, "baseImage") /\ ToLowerCase(a["baseImage"]) = "alpine"

getBaseDockerImage(a) ==
  LET profile == getLanguageProfile(a)
  IN IF (Has(a, "language") /\ Includes(a["language"], "Node")) \/ profile.isJsTs
       THEN IF IsAlpine(a) THEN "node:18-alpine" ELSE "node:18"
     ELSE IF profile.isDotnet THEN "mcr.microsoft.com/dotnet/sdk:8.0"
     ELSE IF profile.isJava THEN "eclipse-temurin:25-jdk"
     ELSE IF profile.isRust THEN "rust:1.70"
     ELSE IF profile.isPython
       THEN IF IsAlpine(a) THEN "python:3.11-alpine" ELSE "python:3.11"
     ELSE IF IsAlpine(a) THEN "alpine:latest" ELSE "ubuntu:22.04"

RECURSIVE CapitalizeParts(_)
CapitalizeParts(parts) ==
  IF parts = << >> THEN ""
  ELSE (IF Head(parts) = "" THEN ""
        ELSE UpperOf(Head(Head(parts))) \o Tail(Head(parts)))
       \o CapitalizeParts(Tail(parts))

getDotnetProjectName(a) ==
  LET name == CapitalizeParts(Split(getProjectSlug(a), "-"))
  IN IF name # "" THEN name ELSE "App"

\* The project file the .NET Dockerfile names, in its build instructions and in
\* its command alike.
DockerDotnetProject(a) ==
  "apps/" \o getProjectSlug(a) \o "/" \o getDotnetProjectName(a) \o ".csproj"

\* What the build step of the Dockerfile runs, and on which project file.
getDockerBuildInstructions(a) ==
  LET profile == getLanguageProfile(a)
  IN IF profile.isJsTs THEN [run |-> "pnpm run build", project |-> Null]
     ELSE IF profile.isPython THEN [run |-> "#", project |-> Null]
     ELSE IF profile.isDotnet
       THEN [run |-> "dotnet restore, dotnet build", project |-> Some(DockerDotnetProject(a))]
     ELSE [run |-> "#", project |-> Null]

\* The start command: what is run, and the port it is told to listen on, if any.
getDockerCmd(a) ==
  LET port == getDockerPort(a)
      profile == getLanguageProfile(a)
  IN IF Flag(a, "useNx") /\ getNormalizedNxPreset(a) \in {"angular", "react", "vue"}
       THEN [run |-> "nx serve", port |-> Some(port)]
     ELSE IF Includes(profile.language, "JavaScript") \/ profile.isJsTs
       THEN [run |-> "pnpm start", port |-> Null]
     ELSE IF profile.isPython THEN [run |-> "python", port |-> Null]
     ELSE IF profile.isJava
       THEN IF getJavaFramework(a) = Some("quarkus")
              THEN [run |-> "java -jar quarkus-run.jar", port |-> Null]
              ELSE [run |-> "java -jar app.jar", port |-> Null]
     ELSE IF profile.isDotnet
       THEN [run |-> "dotnet run", port |-> Some(port), project |-> DockerDotnetProject(a)]
     ELSE IF profile.isRust THEN [run |-> "./target/release/app", port |-> Null]
     ELSE [run |-> "echo", port |-> Null]

\* The Dockerfile of a Java project: the build stage, the image of the final
\* stage, and the port of its ENV PORT and EXPOSE lines.
buildJavaDockerfileContent(a) ==
  LET port == getDockerPort(a)
      javaFramework == getJavaFramework(a)
  IN IF javaFramework = Some("quarkus")
       THEN [build |-> "quarkus", from |-> "eclipse-temurin:25-jdk",
             final |-> "eclipse-temurin:25-jdk", envPort |-> port, expose |-> port,
             cmd |-> [run |-> "java -jar quarkus-run.jar", port |-> Null]]
     ELSE IF javaFramework = Some("spring-boot")
       THEN [build |-> "spring-boot", from |-> "eclipse-temurin:25-jdk",
             final |-> "eclipse-temurin:25-jdk", envPort |-> port, expose |-> port,
             cmd |-> [run |-> "java -jar app.jar", port |-> Null]]
     ELSE [build |-> "basic", from |-> "eclipse-temurin:25-jdk",
           final |-> "debian:bookworm-slim", envPort |-> port, expose |-> port,
           cmd |-> [run |-> "java -jar app.jar", port |-> Null]]

buildDockerfileContent(a) ==
  IF getLanguageProfile(a).isJava THEN buildJavaDockerfileContent(a)
  ELSE LET baseImage == getBaseDockerImage(a)
           port == getDockerPort(a)
       IN [build |-> "single", from |-> baseImage, final |-> baseImage,
           envPort |-> port, expose |-> port,
           buildInstructions |-> getDockerBuildInstructions(a), cmd |-> getDockerCmd(a)]

\* A slip: the compose file publishes the local port instead of the Docker port.
ComposeWithBasePort(a) ==
  [hostPort |-> getDockerBasePort(a), containerPort |-> getDockerBasePort(a),
   envPort |-> getDockerPort(a), db |-> Flag(a, "includeDbService")]

\* docker-compose.yml: the two sides of the app's port mapping, its PORT
\* variable, and whether the db service is there.
buildDockerComposeContent(a) ==
  LET includeDb == Flag(a, "includeDbService")
      port == getDockerPort(a)
  IN [hostPort |-> port, containerPort |-> port, envPort |-> port, db |-> includeDb]

(***************************************************************************)
(* devbox.json packages                                                    *)
(***************************************************************************)
\* [...new Set(q)]: the first occurrence of each element, in order.
RECURSIVE Dedupe(_, _)
Dedupe(q, seen) ==
  IF q = << >> THEN << >>
  ELSE IF Head(q) \in seen THEN Dedupe(Tail(q), seen)
  ELSE <<Head(q)>> \o Dedupe(Tail(q), seen \cup {Head(q)})

When(cond, q) == IF cond THEN q ELSE << >>

pythonToSystem ==
  ("ffmpeg-python" :> "ffmpeg") @@ ("opencv-python" :> "opencv") @@ ("pillow" :> "libjpeg")
  @@ ("numpy" :> "openblas") @@ ("scipy" :> "openblas") @@ ("whisper" :> "openai-whisper")

allowedSystemPackages ==
  {"ffmpeg", "yt-dlp", "openai-whisper", "opencv", "libjpeg", "openblas", "docker",
   "nodejs", "pnpm", "python3", "rustc", "cargo", "jdk", "maven", "dotnet-sdk", "git",
   "curl", "wget"}

\* specificDependencies.split(',').map(trim).filter(non-empty)
ParseDependencies(text) ==
  SelectSeq([i \in 1..Len(Split(text, ",")) |-> Trim(Split(text, ",")[i])],
            LAMBDA dep : Len(dep) > 0)

\* A slip: every dependency is forwarded, known or not.
DevboxPackageUnfiltered(dep) == <<ToLowerCase(dep)>>

\* What one dependency adds to the packages.
DevboxPackageFor(dep) ==
  LET key == ToLowerCase(dep)
  IN IF key \in DOMAIN pythonToSystem /\ pythonToSystem[key] \in allowedSystemPackages
       THEN <<pythonToSystem[key]>>
     ELSE IF key \in allowedSystemPackages THEN <<key>>
     ELSE << >>

RECURSIVE DevboxPackagesFor(_)
DevboxPackagesFor(deps) ==
  IF deps = << >> THEN << >>
  ELSE DevboxPackageFor(Head(deps)) \o DevboxPackagesFor(Tail(deps))

getDevboxPackages(a) ==
  LET profile == getLanguageProfile(a)
      packages ==
        <<"git", "curl", "wget">>
        \o When(profile.isJsTs, <<"nodejs", "pnpm">>)
        \o When(profile.isJava, <<"jdk", "maven">>)
        \o When(profile.isRust, <<"rustc", "cargo">>)
        \o When(profile.isPython, <<"python3">>)
        \o When(profile.isDotnet, <<"dotnet-sdk">>)
        \o When(Flag(a, "createDockerfile"), <<"docker">>)
        \o When(Flag(a, "useNx"), <<"nodejs", "pnpm">>)
        \o When(Flag(a, "useGeminiCLI"), <<"nodejs">>)
        \o When(Flag(a, "useClaudeCode"), <<"nodejs">>)
        \o When(Flag(a, "useCodexCLI"), <<"nodejs">>)
        \o DevboxPackagesFor(ParseDependencies(StrOr(a, "specificDependencies", "")))
  IN Dedupe(packages, {})

(***************************************************************************)
(* applyNonInteractiveDefaults                                             *)
(***************************************************************************)
NonInteractiveDefaults ==
  [projectType |-> "Web app",
   language |-> "JavaScript/TypeScript",
   projectDescription |-> "A new development project",
   specificDependencies |-> "",
   expectedCommands |-> "scaffold,build,test",
   deploymentTarget |-> "Docker container",
   createDockerfile |-> TRUE,
   baseImage |-> "Alpine",
   repoName |-> "my-project",
   initGit |-> TRUE,
   generateReadme |-> TRUE,
   setupVersioning |-> TRUE,
   generateScripts |-> TRUE,
   includeDocs |-> TRUE,
   useGeminiCLI |-> FALSE,
   useClaudeCode |-> FALSE,
   useCodexCLI |-> FALSE,
   javaFramework |-> Null]

PutIf(a, k, opt) == IF Truthy(opt) THEN Put(a, k, opt[1]) ELSE a

\* A slip: --name is parsed but not applied.
ApplyFlagValuesWithoutName(cliConfig) ==
  LET a1 == PutIf(NonInteractiveDefaults, "projectType", cliConfig.projectType)
      a2 == PutIf(a1, "language", cliConfig.language)
      a3 == IF Truthy(cliConfig.javaFramework)
              THEN Put(Put(a2, "javaFramework", cliConfig.javaFramework),
                       "language", "Java (Spring Boot/Quarkus)")
              ELSE a2
      a5 == PutIf(a3, "githubUser", cliConfig.githubUser)
  IN IF cliConfig.dockerOverride # Null
       THEN Put(a5, "createDockerfile", cliConfig.dockerOverride[1])
       ELSE a5

\* The answers after lines 257-283: the defaults overridden by the flags.
ApplyFlagValues(cliConfig) ==
  LET a1 == PutIf(NonInteractiveDefaults, "projectType", cliConfig.projectType)
      a2 == PutIf(a1, "language", cliConfig.language)
      a3 == IF Truthy(cliConfig.javaFramework)
              THEN LET b == Put(a2, "javaFramework", cliConfig.javaFramework)
                   IN IF StrOr(b, "language", "") = "" \/ ~isJavaLanguage(b)
                        THEN Put(b, "language", "Java (Spring Boot/Quarkus)")
                        ELSE b
              ELSE a2
      a4 == PutIf(a3, "repoName", cliConfig.projectName)
      a5 == PutIf(a4, "githubUser", cliConfig.githubUser)
  IN IF cliConfig.dockerOverride # Null
       THEN Put(a5, "createDockerfile", cliConfig.dockerOverride[1])
       ELSE a5

\* The answers after lines 285-295: workspace mode and its preset.
ApplyWorkspaceDefaults(cliConfig, a) ==
  LET shouldUseNx == shouldRecommendNx(a)
      b == Put(Put(a, "useNx", shouldUseNx), "enableAutomation", shouldUseNx)
  IN IF Truthy(cliConfig.nxPreset)
       THEN Put(Put(Put(b, "useNx", TRUE), "enableAutomation", TRUE),
                "nxPreset", cliConfig.nxPreset[1])
     ELSE IF b["useNx"] THEN Put(b, "nxPreset", getDefaultNxPreset(b))
     ELSE b

\* Lines 297-308: whether --db is skipped with a warning, and why.
DbWarning(cliConfig, a) ==
  IF a["createDockerfile"] /\ cliConfig.dbOverride # Null
    THEN IF cliConfig.dbOverride[1] /\ ~shouldOfferDatabaseService(a)
           THEN "not-recommended" ELSE ""
  ELSE IF ~a["createDockerfile"] /\ cliConfig.dbOverride = Some(TRUE)
    THEN "docker-disabled"
  ELSE ""

\* A slip: --db is applied without asking whether the preset takes a database.
ApplyDbOverrideUnchecked(cliConfig) ==
  LET a == ApplyWorkspaceDefaults(cliConfig, ApplyFlagValues(cliConfig))
      b == Put(a, "includeDbService", isJavaLanguage(a) /\ a["createDockerfile"])
  IN IF b["createDockerfile"] /\ cliConfig.dbOverride # Null
       THEN Put(b, "includeDbService", cliConfig.dbOverride[1])
       ELSE b

applyNonInteractiveDefaults(cliConfig) ==
  LET a == ApplyWorkspaceDefaults(cliConfig, ApplyFlagValues(cliConfig))
      javaDbDefault == isJavaLanguage(a) /\ a["createDockerfile"]
      b == Put(a, "includeDbService", javaDbDefault)
  IN IF /\ b["createDockerfile"] /\ cliConfig.dbOverride # Null
        /\ ~(cliConfig.dbOverride[1] /\ ~shouldOfferDatabaseService(b))
       THEN Put(b, "includeDbService", cliConfig.dbOverride[1])
       ELSE b

(***************************************************************************)
(* Prompts                                                                 *)
(***************************************************************************)
\* A slip: the default is shown but not applied to an empty line.
AskWithoutDefault(answer, defaultValue) == Trim(answer)

\* The value ask() resolves with when the user types `answer`.
ask(answer, defaultValue) ==
  LET trimmedAnswer == Trim(answer)
  IN IF trimmedAnswer = "" /\ Truthy(defaultValue) THEN defaultValue[1] ELSE trimmedAnswer

askYesNo(typed, defaultAnswer) ==
  LET answer == ask(typed, Null)
  IN \/ ToLowerCase(answer) = "yes"
     \/ ToLowerCase(answer) = "y"
     \/ (answer = "" /\ defaultAnswer = "yes")

\* A slip: the number typed is used as a zero-based index.
NormalizeZeroBased(answer, options) ==
  LET parsed == ParseInt(answer)
  IN IF parsed # Null /\ parsed[1] >= 0 /\ parsed[1] < Len(options)
       THEN options[parsed[1] + 1]
       ELSE answer

normalizeOptionAnswer(answer, options) ==
  LET parsed == ParseInt(answer)
  IN IF parsed # Null /\ parsed[1] - 1 >= 0 /\ parsed[1] - 1 < Len(options)
       THEN options[parsed[1]]
       ELSE answer

projectTypes == <<"Web app", "CLI tool", "Library", "API service", "Mobile app", "Other">>

languages ==
  <<"JavaScript/TypeScript", "Java (Spring Boot/Quarkus)", "Rust", "Python", ".NET", "Other">>

javaFrameworks == <<"None (basic Java)", "Spring Boot", "Quarkus">>

nxPresets == <<"TypeScript", "Angular", "React", "Vue", "Node", "Java", ".NET">>

assistantOptions == <<"Gemini CLI", "Claude Code", "Codex CLI", "None">>

deploymentTargets == <<"Docker container", "Kubernetes", "Serverless/cloud platform", "Other">>

baseImages == <<"Alpine", "Ubuntu", "Debian", "Other">>

OptionPrompts ==
  {"projectType", "language", "javaFramework", "nxPreset", "assistant",
   "deploymentTarget", "baseImage"}

\* The option list of each prompt that has one.
OptionsOf(prompt) ==
  CASE prompt = "projectType" -> projectTypes
    [] prompt = "language" -> languages
    [] prompt = "javaFramework" -> javaFrameworks
    [] prompt = "nxPreset" -> nxPresets
    [] prompt = "assistant" -> assistantOptions
    [] prompt = "deploymentTarget" -> deploymentTargets
    [] prompt = "baseImage" -> baseImages

\* The default run() passes to ask() for the prompt, given the answers so far.
DefaultOf(prompt, a) ==
  CASE prompt = "projectType" -> "Web app"
    [] prompt = "language" -> "JavaScript/TypeScript"
    [] prompt = "javaFramework" -> "None (basic Java)"
    [] prompt = "nxPreset" -> getDefaultNxPreset(a)
    [] prompt = "assistant" -> "None"
    [] prompt = "deploymentTarget" -> "Docker container"
    [] prompt = "baseImage" -> "Alpine"

\* The option run() takes the typed line for.
ChosenOption(prompt, typed, a) ==
  normalizeOptionAnswer(ask(typed, Some(DefaultOf(prompt, a))), OptionsOf(prompt))

\* The answers run() sets from the line typed at such a prompt.
OptionAnswers(prompt, typed, a) ==
  LET choice == ChosenOption(prompt, typed, a)
  IN IF prompt = "javaFramework"
       THEN ("javaFramework" :> normalizeJavaFramework(choice))
     ELSE IF prompt = "assistant"
       THEN LET assistantChoiceLower == ToLowerCase(choice)
            IN ("useGeminiCLI" :> Includes(assistantChoiceLower, "gemini"))
               @@ ("useClaudeCode" :> Includes(assistantChoiceLower, "claude"))
               @@ ("useCodexCLI" :> Includes(assistantChoiceLower, "codex"))
     ELSE (prompt :> choice)


(***************************************************************************)
(* Bounds and inputs                                                       *)
(***************************************************************************)
\* The longest argument list built freely from ArgTokens.
MaxArgs == 2

\* The most prompts of one run that are answered with something typed.
MaxCustom == 2

ArgTokens ==
  {"--angular", "--java", "--api-service", "--cli-tool", "--quarkus", "--spring-boot",
   "--docker", "--no-docker", "--db", "--no-db", "--name", "demo"}

\* The invocations that README.md, printHelp and docs/testing-flow-plan.md show.
DocumentedArgs ==
  {<<"--java", "--spring-boot", "--api-service", "--name", "demo", "--docker", "--db">>,
   <<"--spring-boot", "--name", "demo", "--docker">>,
   <<"--node", "--docker", "--name", "demo", "--user", "octo", "--db">>,
   <<"--react">>, <<"--vue">>, <<"--node">>, <<"--dotnet">>, <<"--typescript">>,
   <<"--web-app">>, <<"--library">>, <<"--mobile-app">>, <<"--other">>,
   <<"--user", "octo">>, <<"-h">>, <<"--help">>,
   <<"--Angular", "--name=demo", "--help">>}

RECURSIVE SeqsUpTo(_, _)
SeqsUpTo(S, n) ==
  IF n = 0 THEN {<< >>}
  ELSE LET shorter == SeqsUpTo(S, n - 1)
       IN shorter \cup {Append(q, x) : q \in {r \in shorter : Len(r) = n - 1}, x \in S}

ArgLists == SeqsUpTo(ArgTokens, MaxArgs) \cup DocumentedArgs

\* What is typed at each prompt, besides the empty line.
TypedInputs ==
  [projectType |-> {"4"},
   language |-> {"2", "3", "4", "5", "python", "Quarkus"},
   javaFramework |-> {"2", "3"},
   projectDescription |-> {},
   useNx |-> {"no"},
   specificDependencies |-> {"ffmpeg-python, left-pad,,Docker", "NumPy , constructor"},
   enableAutomation |-> {"no"},
   nxPreset |-> {"2", "3", "4", "5", "6", "7"},
   assistant |-> {"3", "Gemini CLI + Claude Code"},
   expectedCommands |-> {},
   generateScripts |-> {},
   includeDocs |-> {},
   deploymentTarget |-> {},
   createDockerfile |-> {"no"},
   baseImage |-> {"2"},
   includeDbService |-> {"yes", "no"},
   repoName |-> {"My App!"},
   initGit |-> {"no"},
   generateReadme |-> {"no"},
   githubUser |-> {"octo"},
   setupVersioning |-> {}]

(***************************************************************************)
(* State                                                                   *)
(***************************************************************************)
VARIABLES
  argv,       \* process.argv.slice(2)
  pc,         \* where the run is: the pending prompt or the next generator step
  cliConfig,  \* this.cliConfig (Null before the constructor has run)
  answers,    \* this.answers
  files,      \* the files under the project directory: path |-> content
  dirs,       \* the directories created under the project directory
  exitCode,   \* the code process.exit was called with, Null if it was not
  fsError,    \* the step of generateProject whose file-system call threw, Null if none
  fsLog,      \* the file-system calls of generateProject that succeeded, in order
  rlClosed,   \* how many times this.rl.close() was called
  out,        \* what was printed, by kind
  custom,     \* how many prompts were answered with something typed
  call,       \* the arguments of the function called on its own, Null in a run
  result      \* what that function returned, Null before it has

vars ==
  <<argv, pc, cliConfig, answers, files, dirs, exitCode, fsError, fsLog, rlClosed, out,
    custom, call, result>>

NoFiles == [k \in {} |-> ""]

Init ==
  /\ argv \in ArgLists
  /\ pc = "new"
  /\ cliConfig = Null
  /\ answers = NoAnswers
  /\ files = NoFiles
  /\ dirs = {}
  /\ exitCode = Null
  /\ fsError = Null
  /\ fsLog = << >>
  /\ rlClosed = 0
  /\ out = {}
  /\ custom = 0
  /\ call = Null
  /\ result = Null

\* What the user may type at a prompt that offers the texts S.
Typed(S) == {""} \cup (IF custom < MaxCustom THEN S ELSE {})

Count(typed) == IF typed = "" THEN custom ELSE custom + 1

(***************************************************************************)
(* The constructor and the head of run()                                   *)
(***************************************************************************)
\* The prompt interface is left open.
rlStaysOpen(closed) == closed

\* this.rl.close(): one more close of the prompt interface.
rlClose(closed) == closed + 1

Construct ==
  /\ pc = "new"
  /\ \E config \in {parseCliOptions(argv)} :
       /\ cliConfig' = config
       /\ IF config.exit
            THEN /\ pc' = "exited"
                 /\ exitCode' = Some(1)
                 /\ out' = out \cup {"error"}
            ELSE /\ pc' = "run"
                 /\ UNCHANGED <<exitCode, out>>
  /\ UNCHANGED <<argv, call, result, answers, files, dirs, rlClosed, custom, fsError, fsLog>>

RunHelp ==
  /\ pc = "run"
  /\ cliConfig.showHelp
  /\ out' = out \cup {"help"}
  /\ rlClosed' = rlClose(rlClosed)
  /\ pc' = "done"
  /\ UNCHANGED <<argv, call, result, cliConfig, answers, files, dirs, exitCode, fsError, fsLog, custom>>

RunNonInteractive ==
  /\ pc = "run"
  /\ ~cliConfig.showHelp
  /\ cliConfig.nonInteractive
  /\ \E defaults \in {applyNonInteractiveDefaults(cliConfig)} :
       /\ answers' = defaults
       /\ out' = out \cup
            (LET w == DbWarning(cliConfig, defaults) IN IF w = "" THEN {} ELSE {"warn:" \o w})
  /\ pc' = "generate"
  /\ UNCHANGED <<argv, call, result, cliConfig, files, dirs, exitCode, fsError, fsLog, rlClosed, custom>>

RunInteractive ==
  /\ pc = "run"
  /\ ~cliConfig.showHelp
  /\ ~cliConfig.nonInteractive
  /\ pc' = "projectType"
  /\ UNCHANGED <<argv, call, result, cliConfig, answers, files, dirs, exitCode, fsError, fsLog, rlClosed, out, custom>>

(***************************************************************************)
(* The prompts of run(), each with the code up to the next prompt          *)
(***************************************************************************)
Prompt(at, typed, a, next) ==
  /\ pc = at
  /\ answers' = a
  /\ pc' = next
  /\ custom' = Count(typed)
  /\ UNCHANGED <<argv, call, result, cliConfig, files, dirs, exitCode, fsError, fsLog, rlClosed, out>>

AnswerProjectType ==
  \E typed \in Typed(TypedInputs.projectType) :
    Prompt("projectType", typed,
           OptionAnswers("projectType", typed, answers) @@ answers,
           "language")

\* A slip: the framework prompt follows whatever language was answered.
LanguageThenFrameworkPrompt ==
  /\ pc = "language"
  /\ \E typed \in Typed(TypedInputs.language) :
       Prompt("language", typed, OptionAnswers("language", typed, answers) @@ answers,
              "javaFramework")

AnswerLanguage ==
  /\ pc = "language"
  /\ \E typed \in Typed(TypedInputs.language) :
       LET a == OptionAnswers("language", typed, answers) @@ answers
       IN IF isJavaLanguage(a)
            THEN Prompt("language", typed, a, "javaFramework")
            ELSE Prompt("language", typed, Put(a, "javaFramework", Null),
                        "projectDescription")

AnswerJavaFramework ==
  \E typed \in Typed(TypedInputs.javaFramework) :
    Prompt("javaFramework", typed,
           OptionAnswers("javaFramework", typed, answers) @@ answers,
           "projectDescription")

AnswerProjectDescription ==
  \E typed \in Typed(TypedInputs.projectDescription) :
    Prompt("projectDescription", typed,
           Put(answers, "projectDescription",
               ask(typed, Some("A new development project"))),
           "useNx")

AnswerUseNx ==
  \E typed \in Typed(TypedInputs.useNx) :
    Prompt("useNx", typed,
           Put(answers, "useNx",
               askYesNo(typed, IF shouldRecommendNx(answers) THEN "yes" ELSE "no")),
           "specificDependencies")

AnswerSpecificDependencies ==
  \E typed \in Typed(TypedInputs.specificDependencies) :
    Prompt("specificDependencies", typed,
           Put(answers, "specificDependencies", ask(typed, Some(""))),
           IF answers["useNx"] THEN "enableAutomation" ELSE "assistant")

AnswerEnableAutomation ==
  \E typed \in Typed(TypedInputs.enableAutomation) :
    Prompt("enableAutomation", typed,
           Put(answers, "enableAutomation", askYesNo(typed, "yes")),
           "nxPreset")

AnswerNxPreset ==
  \E typed \in Typed(TypedInputs.nxPreset) :
    Prompt("nxPreset", typed,
           OptionAnswers("nxPreset", typed, answers) @@ answers,
           "assistant")

AnswerAssistant ==
  \E typed \in Typed(TypedInputs.assistant) :
    Prompt("assistant", typed, OptionAnswers("assistant", typed, answers) @@ answers,
           "expectedCommands")

AnswerExpectedCommands ==
  \E typed \in Typed(TypedInputs.expectedCommands) :
    Prompt("expectedCommands", typed,
           Put(answers, "expectedCommands", ask(typed, Some("scaffold,build,test"))),
           "generateScripts")

AnswerGenerateScripts ==
  \E typed \in Typed(TypedInputs.generateScripts) :
    Prompt("generateScripts", typed,
           Put(answers, "generateScripts", askYesNo(typed, "yes")), "includeDocs")

AnswerIncludeDocs ==
  \E typed \in Typed(TypedInputs.includeDocs) :
    Prompt("includeDocs", typed,
           Put(answers, "includeDocs", askYesNo(typed, "yes")), "deploymentTarget")

AnswerDeploymentTarget ==
  \E typed \in Typed(TypedInputs.deploymentTarget) :
    Prompt("deploymentTarget", typed,
           OptionAnswers("deploymentTarget", typed, answers) @@ answers,
           "createDockerfile")

AnswerCreateDockerfile ==
  /\ pc = "createDockerfile"
  /\ \E typed \in Typed(TypedInputs.createDockerfile) :
       LET a == Put(answers, "createDockerfile", askYesNo(typed, "yes"))
       IN IF a["createDockerfile"]
            THEN Prompt("createDockerfile", typed, a, "baseImage")
            ELSE Prompt("createDockerfile", typed, Put(a, "includeDbService", FALSE),
                        "repoName")

\* A slip: the database prompt follows the base image whatever the preset.
BaseImageThenDbPrompt ==
  /\ pc = "baseImage"
  /\ \E typed \in Typed(TypedInputs.baseImage) :
       Prompt("baseImage", typed, OptionAnswers("baseImage", typed, answers) @@ answers,
              "includeDbService")

AnswerBaseImage ==
  /\ pc = "baseImage"
  /\ \E typed \in Typed(TypedInputs.baseImage) :
       LET a == OptionAnswers("baseImage", typed, answers) @@ answers
       IN IF shouldOfferDatabaseService(a)
            THEN Prompt("baseImage", typed, a, "includeDbService")
            ELSE Prompt("baseImage", typed, Put(a, "includeDbService", FALSE), "repoName")

AnswerIncludeDbService ==
  \E typed \in Typed(TypedInputs.includeDbService) :
    Prompt("includeDbService", typed,
           Put(answers, "includeDbService",
               askYesNo(typed, IF isJavaLanguage(answers) THEN "yes" ELSE "no")),
           "repoName")

AnswerRepoName ==
  \E typed \in Typed(TypedInputs.repoName) :
    Prompt("repoName", typed,
           Put(answers, "repoName", ask(typed, Some("my-project"))), "initGit")

AnswerInitGit ==
  \E typed \in Typed(TypedInputs.initGit) :
    Prompt("initGit", typed,
           Put(answers, "initGit", askYesNo(typed, "yes")), "generateReadme")

AnswerGenerateReadme ==
  \E typed \in Typed(TypedInputs.generateReadme) :
    Prompt("generateReadme", typed,
           Put(answers, "generateReadme", askYesNo(typed, "yes")), "githubUser")

AnswerGithubUser ==
  \E typed \in Typed(TypedInputs.githubUser) :
    Prompt("githubUser", typed,
           Put(answers, "githubUser", ask(typed, Some(""))), "setupVersioning")

AnswerSetupVersioning ==
  \E typed \in Typed(TypedInputs.setupVersioning) :
    Prompt("setupVersioning", typed,
           Put(answers, "setupVersioning", askYesNo(typed, "yes")), "generate")

(***************************************************************************)
(* Generated files                                                         *)
(***************************************************************************)
Join(root, name) == IF root = "" THEN name ELSE root \o "/" \o name

Text == [kind |-> "text"]

\* f with the files of g written over it.
WriteAll(f, g) == g @@ f

\* .replace(/-/g, '')
RECURSIVE RemoveHyphens(_)
RemoveHyphens(s) ==
  IF s = "" THEN ""
  ELSE (IF Head(s) = "-" THEN "" ELSE Head(s)) \o RemoveHyphens(Tail(s))

\* The last part of com.example.<name>.
JavaPackageLeaf(a) ==
  LET slug == RemoveHyphens(getProjectSlug(a))
  IN IF slug = "" THEN "app" ELSE slug

getJavaPackageName(a) == "com.example." \o JavaPackageLeaf(a)

\* path.join(projectPath, 'src', 'main', 'java', ...packageName.split('.'))
JavaPackagePath(a, root) == Join(root, "src/main/java/com/example/" \o JavaPackageLeaf(a))

JavaResourcePath(root) == Join(root, "src/main/resources")

\* One or more calls of mkdirSync (recursive) or of writeFileSync that follow
\* each other, with the paths they are given.
Mkdir(paths) == [op |-> "mkdir", paths |-> paths]

Write(paths) == [op |-> "write", paths |-> paths]

\* A file of the Java scaffold; variant is the scaffold it belongs to.
JavaFile(kind, variant) == [kind |-> kind, variant |-> variant]

\* createBasicJavaScaffold: pom.xml and App.java, whose DEFAULT_PORT is
\* getDockerPort().
createBasicJavaScaffold(a, root) ==
  (Join(root, "pom.xml") :> JavaFile("pom", "basic"))
  @@ (Join(JavaPackagePath(a, root), "App.java")
        :> [kind |-> "java", variant |-> "basic", defaultPort |-> getDockerPort(a)])

BasicJavaScaffoldCalls(a, root) ==
  <<Mkdir({JavaPackagePath(a, root)}), Write(DOMAIN createBasicJavaScaffold(a, root))>>

\* The files createSpringBootScaffold writes with the database service.
SpringBootDbFiles(a, root) ==
  LET packagePath == JavaPackagePath(a, root)
  IN (Join(packagePath, "model/Note.java") :> JavaFile("java", "spring-boot"))
     @@ (Join(packagePath, "repository/NoteRepository.java")
           :> JavaFile("java", "spring-boot"))
     @@ (Join(packagePath, "api/NoteController.java") :> JavaFile("java", "spring-boot"))

\* createSpringBootScaffold: application.properties has server.port=${PORT:8080}.
createSpringBootScaffold(a, root) ==
  LET packagePath == JavaPackagePath(a, root)
  IN (Join(root, "pom.xml") :> JavaFile("pom", "spring-boot"))
     @@ (Join(JavaResourcePath(root), "application.properties")
           :> [kind |-> "properties", variant |-> "spring-boot", defaultPort |-> 8080])
     @@ (Join(packagePath, "Application.java") :> JavaFile("java", "spring-boot"))
     @@ (Join(packagePath, "api/HelloController.java") :> JavaFile("java", "spring-boot"))
     @@ (Join(packagePath, "api/SwaggerRedirectController.java")
           :> JavaFile("java", "spring-boot"))
     @@ (IF Flag(a, "includeDbService") THEN SpringBootDbFiles(a, root) ELSE NoFiles)

SpringBootScaffoldCalls(a, root) ==
  LET packagePath == JavaPackagePath(a, root)
  IN <<Mkdir({packagePath, JavaResourcePath(root)}),
       Write({Join(root, "pom.xml"),
              Join(JavaResourcePath(root), "application.properties"),
              Join(packagePath, "Application.java")}),
       Mkdir({Join(packagePath, "api")}),
       Write({Join(packagePath, "api/HelloController.java"),
              Join(packagePath, "api/SwaggerRedirectController.java")})>>
     \o (IF Flag(a, "includeDbService")
           THEN <<Mkdir({Join(packagePath, "model"), Join(packagePath, "repository")}),
                  Write(DOMAIN SpringBootDbFiles(a, root))>>
           ELSE << >>)

\* The files createQuarkusScaffold writes with the database service.
QuarkusDbFiles(a, root) ==
  LET packagePath == JavaPackagePath(a, root)
  IN (Join(packagePath, "model/Note.java") :> JavaFile("java", "quarkus"))
     @@ (Join(packagePath, "api/NoteResource.java") :> JavaFile("java", "quarkus"))

\* createQuarkusScaffold: application.properties has quarkus.http.port=${PORT:8080}.
createQuarkusScaffold(a, root) ==
  LET packagePath == JavaPackagePath(a, root)
  IN (Join(root, "pom.xml") :> JavaFile("pom", "quarkus"))
     @@ (Join(JavaResourcePath(root), "application.properties")
           :> [kind |-> "properties", variant |-> "quarkus", defaultPort |-> 8080])
     @@ (Join(packagePath, "api/HelloResource.java") :> JavaFile("java", "quarkus"))
     @@ (Join(packagePath, "api/HealthResource.java") :> JavaFile("java", "quarkus"))
     @@ (Join(packagePath, "api/SwaggerRedirectResource.java") :> JavaFile("java", "quarkus"))
     @@ (IF Flag(a, "includeDbService") THEN QuarkusDbFiles(a, root) ELSE NoFiles)

QuarkusScaffoldCalls(a, root) ==
  LET packagePath == JavaPackagePath(a, root)
  IN <<Mkdir({packagePath, JavaResourcePath(root)}),
       Write({Join(root, "pom.xml"),
              Join(JavaResourcePath(root), "application.properties")}),
       Mkdir({Join(packagePath, "api")}),
       Write({Join(packagePath, "api/HelloResource.java"),
              Join(packagePath, "api/HealthResource.java"),
              Join(packagePath, "api/SwaggerRedirectResource.java")})>>
     \o (IF Flag(a, "includeDbService")
           THEN <<Mkdir({Join(packagePath, "model")}), Write(DOMAIN QuarkusDbFiles(a, root))>>
           ELSE << >>)

\* A slip: the scaffold is chosen by the words of the language answer.
JavaScaffoldByLanguageText(a, root) ==
  LET raw == ToLowerCase(StrOr(a, "language", ""))
  IN IF Includes(raw, "quarkus") THEN createQuarkusScaffold(a, root)
     ELSE IF Includes(raw, "spring") THEN createSpringBootScaffold(a, root)
     ELSE createBasicJavaScaffold(a, root)

\* Which Java scaffold is written: the one of getJavaFramework().
createJavaScaffold(a, root) ==
  LET framework == getJavaFramework(a)
  IN IF framework = Some("spring-boot") THEN createSpringBootScaffold(a, root)
     ELSE IF framework = Some("quarkus") THEN createQuarkusScaffold(a, root)
     ELSE createBasicJavaScaffold(a, root)

JavaScaffoldCalls(a, root) ==
  LET framework == getJavaFramework(a)
  IN IF framework = Some("spring-boot") THEN SpringBootScaffoldCalls(a, root)
     ELSE IF framework = Some("quarkus") THEN QuarkusScaffoldCalls(a, root)
     ELSE BasicJavaScaffoldCalls(a, root)

\* The starter files createLanguageScaffold writes under root.
createLanguageScaffold(a, f, root, isNx) ==
  LET profile == getLanguageProfile(a)
  IN IF profile.isPython THEN (Join(root, "src/main.py") :> Text)
     ELSE IF profile.isJsTs THEN
       IF isNx
         THEN (IF "tsconfig.base.json" \in DOMAIN f THEN NoFiles
               ELSE ("tsconfig.base.json" :> Text))
              @@ (Join(root, "tsconfig.app.json") :> Text)
              @@ (Join(root, "tsconfig.json") :> Text)
              @@ (Join(root, "src/main.ts") :> Text)
         ELSE (Join(root, "src/main.js") :> Text)
     ELSE IF profile.isRust
       THEN (Join(root, "Cargo.toml") :> Text) @@ (Join(root, "src/main.rs") :> Text)
     ELSE IF profile.isJava THEN createJavaScaffold(a, root)
     ELSE IF profile.isDotnet
       THEN (Join(root, getDotnetProjectName(a) \o ".csproj") :> Text)
            @@ (Join(root, "src/Program.cs") :> Text)
     ELSE NoFiles

\* The calls of createLanguageScaffold: src is created first, whatever the
\* language, and the Java scaffolds create their own directories.
LanguageScaffoldCalls(a, f, root, isNx) ==
  <<Mkdir({Join(root, "src")})>>
  \o (IF getLanguageProfile(a).isPython \/ getLanguageProfile(a).isJsTs
          \/ getLanguageProfile(a).isRust
        THEN <<Write(DOMAIN createLanguageScaffold(a, f, root, isNx))>>
      ELSE IF getLanguageProfile(a).isJava THEN JavaScaffoldCalls(a, root)
      ELSE IF getLanguageProfile(a).isDotnet
        THEN <<Write(DOMAIN createLanguageScaffold(a, f, root, isNx))>>
      ELSE << >>)

getJavaDevCommand(a) ==
  IF getJavaFramework(a) = Some("spring-boot") THEN "mvn spring-boot:run"
  ELSE IF getJavaFramework(a) = Some("quarkus")
    THEN "JAVA_TOOL_OPTIONS=\"-Dnet.bytebuddy.experimental=true\" mvn quarkus:dev"
  ELSE "mvn -q -DskipTests package && java -jar target/app.jar"

getJavaBuildCommand(a) ==
  IF getJavaFramework(a) = Some("quarkus")
    THEN "JAVA_TOOL_OPTIONS=\"-Dnet.bytebuddy.experimental=true\" mvn -q -DskipTests package"
  ELSE "mvn -q -DskipTests package"

getJavaTestCommand == "mvn -q test"

\* The commands of the build and serve targets that getNxTargets gives to
\* nx:run-commands.
NxRunCommands(a) ==
  LET profile == getLanguageProfile(a)
      basePath == "apps/" \o getProjectSlug(a)
  IN IF profile.isPython
       THEN [build |-> "python -m py_compile " \o basePath \o "/src/main.py",
             serve |-> "python " \o basePath \o "/src/main.py"]
     ELSE IF profile.isRust THEN [build |-> "cargo build --release", serve |-> "cargo run"]
     ELSE IF profile.isJava
       THEN [build |-> getJavaBuildCommand(a), serve |-> getJavaDevCommand(a)]
     ELSE IF profile.isDotnet THEN [build |-> "dotnet build", serve |-> "dotnet run"]
     ELSE [build |-> "echo \"No build configured yet\"",
           serve |-> "echo \"No dev command configured yet\""]

\* The serve target of the project.json the wizard writes itself.
getNxProjectConfig(a) ==
  LET profile == getLanguageProfile(a)
      useJsTargets ==
        /\ getNxPresetDetails(a).usesJs \/ profile.isJsTs
        /\ ~profile.isPython /\ ~profile.isRust /\ ~profile.isJava /\ ~profile.isDotnet
  IN [kind |-> "project", json |-> TRUE,
      serveExecutor |-> Some(IF useJsTargets THEN "@nx/js:node" ELSE "nx:run-commands"),
      servePort |-> Null,
      commands |-> IF useJsTargets THEN Null ELSE Some(NxRunCommands(a))]

ProjectConfigPath(a) == "apps/" \o getProjectSlug(a) \o "/project.json"

E2eConfigPath(a) == "apps/" \o getProjectSlug(a) \o "-e2e/cypress.config.ts"

\* What a successful run of the Nx application generator may leave behind:
\* a project.json (or none at that path), with or without a serve target,
\* and possibly a Cypress configuration.  Only the generators of the three
\* front-end presets produce dev-server targets.
NoOutput == [project |-> Null, e2e |-> Null]

GeneratedProject(json, executor, port) ==
  Some([kind |-> "project", json |-> json, serveExecutor |-> executor, servePort |-> port])

GeneratedOutputs(presetKey) ==
  {NoOutput,
   [project |-> GeneratedProject(TRUE, Some("@nx/js:node"), Null), e2e |-> Null]}
  \cup
  (IF presetKey \in {"angular", "react", "vue"}
     THEN {[project |-> GeneratedProject(FALSE, Null, Null), e2e |-> Null],
           [project |-> GeneratedProject(TRUE, Null, Null), e2e |-> Null],
           [project |-> GeneratedProject(TRUE, Some("@nx/vite:dev-server"), Null),
            e2e |-> Null],
           [project |-> GeneratedProject(TRUE, Some("@nx/angular:dev-server"), Some(4200)),
            e2e |-> Some([kind |-> "cypress", baseUrlPort |-> 4200])]}
     ELSE {})

\* The outcomes of tryGenerateNxApplication's external commands.
ToolOutcomes == {"pnpm-missing", "install-failed", "generator-failed", "generated"}

\* Whether ensureNxServePort reaches its write of the port.
WritesServePort(a, f) ==
  /\ getNormalizedNxPreset(a) \in {"angular", "react", "vue"}
  /\ ProjectConfigPath(a) \in DOMAIN f
  /\ f[ProjectConfigPath(a)].json
  /\ f[ProjectConfigPath(a)].serveExecutor # Null
  /\ Includes(f[ProjectConfigPath(a)].serveExecutor[1], "dev-server")

\* A slip: the serve target is given the Docker port.
WriteServePortDocker(a, f) ==
  Put(f, ProjectConfigPath(a),
      [f[ProjectConfigPath(a)] EXCEPT !.servePort = Some(getDockerPort(a))])

WriteServePort(a, f) ==
  Put(f, ProjectConfigPath(a),
      [f[ProjectConfigPath(a)] EXCEPT !.servePort = Some(getDockerBasePort(a))])

ensureNxServePort(a, f) ==
  IF ~WritesServePort(a, f) THEN f
  ELSE LET g == WriteServePort(a, f)
       IN IF E2eConfigPath(a) \in DOMAIN g
            THEN Put(g, E2eConfigPath(a),
                     [g[E2eConfigPath(a)] EXCEPT !.baseUrlPort = getDockerBasePort(a)])
            ELSE g

(***************************************************************************)
(* generateProject                                                         *)
(***************************************************************************)
\* A slip: the dev script follows the language in workspace mode too.
DevScriptByLanguage(a) ==
  LET profile == getLanguageProfile(a)
  IN IF profile.isJsTs THEN "pnpm run dev"
     ELSE IF profile.isPython THEN ". .venv/bin/activate && python src/main.py"
     ELSE IF profile.isRust THEN "cargo run"
     ELSE IF profile.isJava THEN getJavaDevCommand(a)
     ELSE IF profile.isDotnet THEN "dotnet run"
     ELSE "echo \"Configure your dev command\""

getDevScript(a) ==
  LET profile == getLanguageProfile(a)
  IN IF Flag(a, "useNx") THEN "pnpm run dev"
     ELSE IF profile.isJsTs THEN "pnpm run dev"
     ELSE IF profile.isPython THEN ". .venv/bin/activate && python src/main.py"
     ELSE IF profile.isRust THEN "cargo run"
     ELSE IF profile.isJava THEN getJavaDevCommand(a)
     ELSE IF profile.isDotnet THEN "dotnet run"
     ELSE "echo \"Configure your dev command\""

getBuildScript(a) ==
  LET profile == getLanguageProfile(a)
  IN IF Flag(a, "useNx") THEN "pnpm run build"
     ELSE IF profile.isJsTs THEN "pnpm run build"
     ELSE IF profile.isRust THEN "cargo build --release"
     ELSE IF profile.isJava THEN getJavaBuildCommand(a)
     ELSE IF profile.isDotnet THEN "dotnet build"
     ELSE "echo \"Configure your build command\""

getTestScript(a) ==
  LET profile == getLanguageProfile(a)
  IN IF Flag(a, "useNx") THEN "pnpm run test"
     ELSE IF profile.isJsTs THEN "pnpm test"
     ELSE IF profile.isPython
       THEN ". .venv/bin/activate && if ls tests/*.py >/dev/null 2>&1; then "
            \o "python -m pytest tests/; else echo \"No tests configured yet\"; fi"
     ELSE IF profile.isRust THEN "cargo test"
     ELSE IF profile.isJava THEN getJavaTestCommand
     ELSE IF profile.isDotnet
       THEN "if ls tests/*.csproj >/dev/null 2>&1; then dotnet test; "
            \o "else echo \"No tests configured yet\"; fi"
     ELSE "echo \"Configure your test command\""

\* (this.answers.expectedCommands || '').split(',').map(cmd => cmd.trim())
getExpectedCommands(a) ==
  LET parts == Split(StrOr(a, "expectedCommands", ""), ",")
  IN [i \in DOMAIN parts |-> Trim(parts[i])]

\* The scripts ai_<cmd> of one assistant.
AssistantScripts(a, toggle, tool) ==
  IF Flag(a, "generateScripts") /\ Flag(a, toggle)
    THEN [name \in {"ai_" \o cmd : cmd \in Range(getExpectedCommands(a))}
            |-> tool \o " " \o SubSeq(name, 4, Len(name))]
    ELSE NoFiles

\* getShellScripts: script name |-> command; a later assistant overwrites
\* the scripts of an earlier one.
getShellScripts(a) ==
  AssistantScripts(a, "useCodexCLI", "codex")
  @@ AssistantScripts(a, "useClaudeCode", "claude")
  @@ AssistantScripts(a, "useGeminiCLI", "gemini")
  @@ ("dev" :> getDevScript(a)) @@ ("build" :> getBuildScript(a))
  @@ ("test" :> getTestScript(a))

generateDevboxConfig(a, f) ==
  Put(f, "devbox.json",
      [kind |-> "devbox", packages |-> getDevboxPackages(a), scripts |-> getShellScripts(a)])

\* The scripts of the package.json of a workspace.
NxPackageScripts(a) ==
  ("build" :> "nx build " \o getProjectSlug(a))
  @@ ("test" :> "nx test " \o getProjectSlug(a))
  @@ ("lint" :> "nx lint " \o getProjectSlug(a))
  @@ ("dev" :> "nx serve " \o getProjectSlug(a))
  @@ ("start" :> "nx serve " \o getProjectSlug(a))

\* The scripts of the package.json written outside workspace mode.
SimplePackageScripts ==
  ("start" :> "node src/main.js") @@ ("dev" :> "node src/main.js")
  @@ ("build" :> "node src/main.js") @@ ("test" :> "echo \"No tests configured yet\"")

\* The files generateNxSetup writes before it tries the generator.
NxWorkspaceFiles(a) ==
  ("nx.json" :> [kind |-> "nx", defaultProject |-> getProjectSlug(a)])
  @@ ("package.json" :> [kind |-> "package", name |-> StrOr(a, "repoName", ""),
                         nx |-> TRUE, scripts |-> NxPackageScripts(a)])
  @@ ("pnpm-workspace.yaml" :> Text)
  @@ ("scripts/nx-generate.sh" :> Text)

\* The outcomes the generator can have for these answers.
OutcomesFor(a) ==
  IF ~Flag(a, "enableAutomation") THEN {"not-tried"}
  ELSE IF getNxPresetDetails(a).appGenerator = "" THEN {"no-generator"}
  ELSE ToolOutcomes

\* The paths at which g holds a file that f does not hold.
Changed(f, g) == {path \in DOMAIN g : path \notin DOMAIN f \/ f[path] # g[path]}

\* The end of generateNxSetup: the port of the serve target, then the .NET
\* targets file when the generator left one.
FinishNxSetup(a, f) ==
  LET g == ensureNxServePort(a, f)
  IN IF getNormalizedNxPreset(a) = "dotnet" /\ "Directory.Build.targets" \in DOMAIN g
       THEN Put(g, "Directory.Build.targets", [kind |-> "targets", normalized |-> TRUE])
       ELSE g

\* The writes that lead from the files f to the files g.
WriteCalls(f, g) == IF Changed(f, g) = {} THEN << >> ELSE <<Write(Changed(f, g))>>

\* The writes of ensureNxServePort and normalizeDotnetModuleBoundariesTarget.
FinishNxSetupCalls(a, f) == WriteCalls(f, FinishNxSetup(a, f))

\* The files a successful generator run leaves behind, in directories it
\* creates itself.
Generator(paths) == [op |-> "generator", paths |-> paths]

\* The calls of generateNxSetup up to the generator.
NxWorkspaceCalls(a) ==
  <<Mkdir({"apps", "libs"}), Write(DOMAIN NxWorkspaceFiles(a))>>

\* A slip: when the generator did not succeed nothing is written in its place.
NxSetupWithoutFallback(a, f, tool, output) ==
  LET base == WriteAll(f, NxWorkspaceFiles(a))
      generated ==
        (IF output.project = Null THEN NoFiles
         ELSE (ProjectConfigPath(a) :> output.project[1]))
        @@ (IF output.e2e = Null THEN NoFiles ELSE (E2eConfigPath(a) :> output.e2e[1]))
  IN [files |-> FinishNxSetup(a, IF tool = "generated" THEN WriteAll(base, generated)
                                 ELSE base),
      dirs |-> {"apps", "libs"},
      calls |-> NxWorkspaceCalls(a),
      out |-> IF tool \in {"generated", "not-tried"} THEN {} ELSE {"warn:" \o tool}]

\* generateNxSetup.  tool is the outcome of the generator's commands and
\* output what the generator left behind when it succeeded.
generateNxSetup(a, f, tool, output) ==
  LET base == WriteAll(f, NxWorkspaceFiles(a))
      appRoot == "apps/" \o getProjectSlug(a)
      generated ==
        (IF output.project = Null THEN NoFiles
         ELSE (ProjectConfigPath(a) :> output.project[1]))
        @@ (IF output.e2e = Null THEN NoFiles ELSE (E2eConfigPath(a) :> output.e2e[1]))
        @@ (IF getNormalizedNxPreset(a) = "dotnet"
              THEN ("Directory.Build.targets" :> [kind |-> "targets", normalized |-> FALSE])
              ELSE NoFiles)
  IN IF tool = "generated"
       THEN [files |-> FinishNxSetup(a, WriteAll(base, generated)),
             dirs |-> {"apps", "libs", appRoot},
             calls |-> NxWorkspaceCalls(a)
                         \o <<Generator(DOMAIN generated)>>
                         \o FinishNxSetupCalls(a, WriteAll(base, generated)),
             out |-> IF output.project # Null /\ ~output.project[1].json
                          /\ getNormalizedNxPreset(a) \in {"angular", "react", "vue"}
                       THEN {"warn:project-config"} ELSE {}]
       ELSE [files |-> FinishNxSetup(a,
                         WriteAll(WriteAll(base,
                                           (ProjectConfigPath(a) :> getNxProjectConfig(a))),
                                  createLanguageScaffold(a, base, appRoot, TRUE))),
             dirs |-> {"apps", "libs", appRoot, Join(appRoot, "src")},
             calls |-> NxWorkspaceCalls(a)
                         \o <<Mkdir({Join(appRoot, "src")}),
                              Write({ProjectConfigPath(a)})>>
                         \o LanguageScaffoldCalls(a, base, appRoot, TRUE)
                         \o FinishNxSetupCalls(a,
                              WriteAll(WriteAll(base,
                                         (ProjectConfigPath(a) :> getNxProjectConfig(a))),
                                       createLanguageScaffold(a, base, appRoot, TRUE))),
             out |-> IF tool = "not-tried" THEN {} ELSE {"warn:" \o tool}]

\* A slip: the simple setup starts from an empty project directory.
DevboxOnlySetupFresh(a, f) ==
  [files |-> WriteAll(("scripts/build.sh" :> Text),
                      createLanguageScaffold(a, NoFiles, "", FALSE)),
   dirs |-> {"src", "docs", "scripts", "tests"},
   calls |-> <<Mkdir({"src", "docs", "scripts", "tests"}), Write({"scripts/build.sh"})>>
               \o LanguageScaffoldCalls(a, NoFiles, "", FALSE),
   out |-> {}]

generateDevboxOnlySetup(a, f) ==
  [files |-> WriteAll(WriteAll(f, ("scripts/build.sh" :> Text)),
                      createLanguageScaffold(a, f, "", FALSE)),
   dirs |-> {"src", "docs", "scripts", "tests"},
   calls |-> <<Mkdir({"src", "docs", "scripts", "tests"}), Write({"scripts/build.sh"})>>
               \o LanguageScaffoldCalls(a, f, "", FALSE),
   out |-> {}]

generateAIConfig(a) ==
  (IF Flag(a, "useGeminiCLI")
     THEN (".gemini.json" :> Text) @@ ("scripts/install-gemini.sh" :> Text) ELSE NoFiles)
  @@ (IF Flag(a, "useClaudeCode")
        THEN (".claude.json" :> Text) @@ ("scripts/install-claude.sh" :> Text) ELSE NoFiles)
  @@ (IF Flag(a, "useCodexCLI")
        THEN (".codex.json" :> Text) @@ ("scripts/install-codex.sh" :> Text) ELSE NoFiles)

\* The Java section of README.md: empty unless the language is Java;
\* otherwise the framework, the path of the Swagger UI and the two ports its
\* URLs carry, localPort for a local run and dockerPort for the container.
buildJavaReadmeSection(a) ==
  IF ~isJavaLanguage(a) THEN Null
  ELSE LET framework == getJavaFramework(a)
       IN Some([framework |-> framework,
                swaggerUi |-> IF framework = Some("spring-boot") THEN "/swagger-ui"
                              ELSE IF framework = Some("quarkus") THEN "/q/swagger-ui"
                              ELSE "/swagger.json",
                localPort |-> getDockerBasePort(a),
                dockerPort |-> getDockerPort(a)])

buildReadmeContent(a) == [kind |-> "readme", java |-> buildJavaReadmeSection(a)]

generateReadme(a, f) == Put(f, "README.md", buildReadmeContent(a))

generateDockerfile(a) ==
  ("Dockerfile" :> buildDockerfileContent(a))
  @@ ("docker-compose.yml" :> buildDockerComposeContent(a))
  @@ (".dockerignore" :> Text)

\* The content of .env after generateEnvFile: existing is the content
\* before (Null when there is no file), the result the content after.
EnvFileContent(githubUser, existing) ==
  LET entry == "GITHUB_USER=" \o githubUser \o "\n"
  IN IF githubUser = "" THEN existing
     ELSE IF existing # Null
       THEN IF Includes(existing[1], "GITHUB_USER=") THEN existing
            ELSE LET needsNewline == Len(existing[1]) > 0 /\ ~EndsWith(existing[1], "\n")
                 IN Some(existing[1] \o (IF needsNewline THEN "\n" ELSE "") \o entry)
     ELSE Some(entry)

\* A slip: the entry is appended without looking for one already there.
EnvFileAlwaysAppended(a, f) ==
  LET githubUser == Trim(StrOr(a, "githubUser", ""))
      existing == IF ".env" \in DOMAIN f THEN f[".env"].content ELSE ""
  IN IF githubUser = "" THEN f
     ELSE Put(f, ".env",
              [kind |-> "env", content |-> existing \o "GITHUB_USER=" \o githubUser \o "\n"])

generateEnvFile(a, f) ==
  LET githubUser == Trim(StrOr(a, "githubUser", ""))
      existing == IF ".env" \in DOMAIN f THEN Some(f[".env"].content) ELSE Null
      written == EnvFileContent(githubUser, existing)
  IN IF written = existing THEN f
     ELSE Put(f, ".env", [kind |-> "env", content |-> written[1]])

\* requirements.txt for Python; package.json for JavaScript/TypeScript,
\* written anew outside workspace mode and extended in it.
generateRequirementsFiles(a, f) ==
  LET rawDeps == ParseDependencies(StrOr(a, "specificDependencies", ""))
      profile == getLanguageProfile(a)
      g == IF profile.isPython
             THEN Put(f, "requirements.txt", [kind |-> "requirements", deps |-> rawDeps])
             ELSE f
  IN IF ~profile.isJsTs THEN g
     ELSE IF ~Flag(a, "useNx")
       THEN Put(g, "package.json",
                [kind |-> "package", name |-> StrOr(a, "repoName", ""), nx |-> FALSE,
                 scripts |-> SimplePackageScripts, dependencies |-> Range(rawDeps)])
     ELSE IF Len(rawDeps) > 0 /\ "package.json" \in DOMAIN g
       THEN Put(g, "package.json",
                [kind |-> "package", name |-> g["package.json"].name, nx |-> TRUE,
                 scripts |-> g["package.json"].scripts, dependencies |-> Range(rawDeps)])
     ELSE g

\* initializeGit: `git init` may fail, the write of .gitignore may fail, or
\* `git add` / `git commit` after it; the one catch reports each of them.
GitOutcomes == {"ok", "init-failed", "write-failed", "commit-failed"}

initializeGit(f, git) ==
  [files |-> IF git \in {"init-failed", "write-failed"} THEN f
             ELSE Put(f, ".gitignore", Text),
   out |-> IF git = "ok" THEN {"git-initialized"} ELSE {"warn:git"}]

\* A slip: no directory is created ahead of the generators.
NoProjectDirs == << >>

ensureProjectDirs == <<Mkdir({"scripts"})>>

\* The steps of generateProject's try block that call the file system, in
\* the order they run.
StepOrder ==
  <<"mkdir", "devbox", "setup", "ai", "docker", "readme", "env", "requirements">>

Position(step) == CHOOSE i \in DOMAIN StepOrder : StepOrder[i] = step

\* A slip: the steps after the failing one are executed all the same.
RunsRegardless(step, fail) == TRUE

\* Whether the step is reached when the file system fails at `fail`.
Runs(step, fail) == fail = "none" \/ Position(step) < Position(fail)

\* Where the file system may fail for these answers: at a step that is
\* executed and creates a directory or writes a file.
FailurePoints(a) ==
  LET profile == getLanguageProfile(a)
  IN {"none", "mkdir", "devbox", "setup"}
     \cup (IF generateAIConfig(a) # NoFiles THEN {"ai"} ELSE {})
     \cup (IF Flag(a, "createDockerfile") THEN {"docker"} ELSE {})
     \cup (IF Flag(a, "generateReadme") THEN {"readme"} ELSE {})
     \cup (IF Trim(StrOr(a, "githubUser", "")) # "" THEN {"env"} ELSE {})
     \cup (IF profile.isPython \/ (profile.isJsTs /\ ~Flag(a, "useNx"))
             THEN {"requirements"} ELSE {})

\* generateProject: every generator in turn, then the success report; an
\* exception of the file system ends the try block at the step that threw
\* (fail, taken at the step's first call) and is reported by the catch;
\* rl.close() follows either way.  tool, output and git are what the
\* external commands do in this run.
generateProject ==
  /\ pc = "generate"
  /\ \E fail \in FailurePoints(answers) :
     \E tool \in (IF Flag(answers, "useNx") /\ Runs("setup", fail)
                    THEN OutcomesFor(answers) ELSE {"none"}) :
     \E output \in (IF tool = "generated"
                      THEN GeneratedOutputs(getNormalizedNxPreset(answers))
                      ELSE {NoOutput}) :
     \E withDevbox \in {IF Runs("devbox", fail)
                          THEN generateDevboxConfig(answers, files) ELSE files} :
     \E setup \in {IF ~Runs("setup", fail)
                     THEN [files |-> withDevbox, dirs |-> {}, calls |-> << >>, out |-> {}]
                   ELSE IF Flag(answers, "useNx")
                     THEN generateNxSetup(answers, withDevbox, tool, output)
                   ELSE generateDevboxOnlySetup(answers, withDevbox)} :
     \E withAI \in {IF Runs("ai", fail)
                      THEN WriteAll(setup.files, generateAIConfig(answers))
                      ELSE setup.files} :
     \E withDocker \in {IF Runs("docker", fail) /\ Flag(answers, "createDockerfile")
                          THEN WriteAll(withAI, generateDockerfile(answers))
                          ELSE withAI} :
     \E withReadme \in {IF Runs("readme", fail) /\ Flag(answers, "generateReadme")
                          THEN generateReadme(answers, withDocker) ELSE withDocker} :
     \E withEnv \in {IF Runs("env", fail)
                       THEN generateEnvFile(answers, withReadme) ELSE withReadme} :
     \E written \in {IF Runs("requirements", fail)
                       THEN generateRequirementsFiles(answers, withEnv) ELSE withEnv} :
     \E git \in (IF fail = "none" /\ Flag(answers, "initGit")
                   THEN GitOutcomes ELSE {"skipped"}) :
     \E withGit \in {IF git = "skipped" THEN [files |-> written, out |-> {}]
                     ELSE initializeGit(written, git)} :
       /\ files' = withGit.files
       /\ dirs' = IF fail = "mkdir" THEN dirs
                  ELSE dirs \cup {"", "scripts"} \cup setup.dirs
       /\ out' = out \cup setup.out \cup withGit.out
                   \cup (IF fail = "none" THEN {"success"} ELSE {"error:generate"})
       /\ fsLog' = (IF fail = "mkdir" THEN << >> ELSE <<Mkdir({""})>> \o ensureProjectDirs)
                     \o WriteCalls(files, withDevbox)
                     \o setup.calls
                     \o WriteCalls(setup.files, withAI)
                     \o WriteCalls(withAI, withDocker)
                     \o WriteCalls(withDocker, withReadme)
                     \o WriteCalls(withReadme, withEnv)
                     \o WriteCalls(withEnv, written)
                     \o WriteCalls(written, withGit.files)
       /\ fsError' = IF fail # "none" THEN Some(fail)
                     ELSE IF git = "write-failed" THEN Some("gitignore")
                     ELSE Null
  /\ rlClosed' = rlClose(rlClosed)
  /\ pc' = "done"
  /\ UNCHANGED <<argv, call, result, cliConfig, answers, exitCode, custom>>

Next ==
  \/ Construct
  \/ RunHelp
  \/ RunNonInteractive
  \/ RunInteractive
  \/ AnswerProjectType
  \/ AnswerLanguage
  \/ AnswerJavaFramework
  \/ AnswerProjectDescription
  \/ AnswerUseNx
  \/ AnswerSpecificDependencies
  \/ AnswerEnableAutomation
  \/ AnswerNxPreset
  \/ AnswerAssistant
  \/ AnswerExpectedCommands
  \/ AnswerGenerateScripts
  \/ AnswerIncludeDocs
  \/ AnswerDeploymentTarget
  \/ AnswerCreateDockerfile
  \/ AnswerBaseImage
  \/ AnswerIncludeDbService
  \/ AnswerRepoName
  \/ AnswerInitGit
  \/ AnswerGenerateReadme
  \/ AnswerGithubUser
  \/ AnswerSetupVersioning
  \/ generateProject

Spec == Init /\ [][Next]_vars

\* The positions of a run, in the order of the constructor, run() and
\* generateProject(); "exited" is process.exit(1) inside parseCliOptions.
RunPositions ==
  <<"new", "run", "projectType", "language", "javaFramework", "projectDescription",
    "useNx", "specificDependencies", "enableAutomation", "nxPreset", "assistant",
    "expectedCommands", "generateScripts", "includeDocs", "deploymentTarget",
    "createDockerfile", "baseImage", "includeDbService", "repoName", "initGit",
    "generateReadme", "githubUser", "setupVersioning", "generate", "done">>

Ended == {"exited", "done"}

\* A run that has not ended moves on to another position.
Proceed == pc \notin Ended /\ pc' \in (Range(RunPositions) \cup {"exited"}) \ {pc}

\* A run whose steps all happen: the synchronous code of the constructor, of
\* run() and of generateProject() returns (every execSync and file-system call
\* returns or throws), and every prompt that run() awaits is answered, at the
\* latest with an empty line.  Every step of Next is a step of Proceed, and
\* Proceed is enabled wherever the run has not ended.
SpecLive == Spec /\ WF_pc(Proceed)

(***************************************************************************)
(* Properties of a run                                                     *)
(***************************************************************************)
\* C1: when the container files are generated, the Dockerfile's EXPOSE and
\* ENV PORT and both sides of the docker-compose.yml port mapping all equal
\* getDockerBasePort() + 1; and they are generated whenever a run that the
\* file system did not fail had createDockerfile on.
C1_ContainerPortsAgree ==
  /\ (pc = "done" /\ fsError = Null /\ Flag(answers, "createDockerfile"))
       => {"Dockerfile", "docker-compose.yml"} \subseteq DOMAIN files
  /\ "Dockerfile" \in DOMAIN files
       => LET applicationPort == getDockerBasePort(answers) + 1
          IN /\ files["Dockerfile"].expose = applicationPort
             /\ files["Dockerfile"].envPort = applicationPort
             /\ files["docker-compose.yml"].hostPort = applicationPort
             /\ files["docker-compose.yml"].containerPort = applicationPort

\* A Vue workspace whose container files carry 5174 everywhere.
C1_Witness ==
  /\ pc = "done" /\ fsError = Null
  /\ Flag(answers, "useNx") /\ getNormalizedNxPreset(answers) = "vue"
  /\ "Dockerfile" \in DOMAIN files
  /\ files["Dockerfile"].expose = 5174
  /\ files["docker-compose.yml"].hostPort = 5174

\* C2, as the code has it: whenever ensureNxServePort has written the port
\* of the serve target, that port is getDockerBasePort(), the local port,
\* which is one less than the port the Dockerfile EXPOSEs and, where its CMD
\* is `nx serve`, passes as --port.
C2_ServePortIsBasePort ==
  (pc = "done" /\ Flag(answers, "useNx") /\ WritesServePort(answers, files))
    => /\ files[ProjectConfigPath(answers)].servePort = Some(getDockerBasePort(answers))
       /\ "Dockerfile" \in DOMAIN files
            => /\ files["Dockerfile"].expose = getDockerBasePort(answers) + 1
               /\ files["Dockerfile"].cmd.run = "nx serve"
                    => files["Dockerfile"].cmd.port = Some(getDockerBasePort(answers) + 1)

\* A React workspace whose generated dev-server target had no port: it is
\* given 3000 while the Dockerfile serves on 3001.
C2_Witness ==
  /\ pc = "done" /\ fsError = Null
  /\ Flag(answers, "useNx") /\ getNormalizedNxPreset(answers) = "react"
  /\ WritesServePort(answers, files)
  /\ files[ProjectConfigPath(answers)].serveExecutor = Some("@nx/vite:dev-server")
  /\ files[ProjectConfigPath(answers)].servePort = Some(3000)
  /\ "Dockerfile" \in DOMAIN files
  /\ files["Dockerfile"].cmd.port = Some(3001)

\* C2 as stated: the port written to the serve target is the application
\* port, getDockerBasePort() + 1, the one the Dockerfile EXPOSEs.
C2_ServePortIsApplicationPort ==
  (pc = "done" /\ Flag(answers, "useNx") /\ WritesServePort(answers, files))
    => files[ProjectConfigPath(answers)].servePort = Some(getDockerPort(answers))

\* C3: an argument list that holds --docker and --no-docker, or --db and
\* --no-db, or two different preset flags, or --quarkus and --spring-boot,
\* or a Java framework flag and a preset flag other than --java, or two
\* different project-type flags, in any order, ends the process with exit
\* code 1 in the constructor: no directory is made and no file written.
C3_ConflictingFlagsExit ==
  LET keys == {ToLowerCase(Split(SubSeq(argv[i], 3, Len(argv[i])), "=")[1]) :
                 i \in {j \in DOMAIN argv : StartsWith(argv[j], "--")}}
      presets == keys \cap Range(PresetFlagKeys)
      types == keys \cap Range(ProjectTypeFlagKeys)
      frameworks == keys \cap {"quarkus", "spring-boot"}
      conflicting ==
        \/ {"docker", "no-docker"} \subseteq keys
        \/ {"db", "no-db"} \subseteq keys
        \/ Cardinality(presets) > 1
        \/ Cardinality(frameworks) > 1
        \/ frameworks # {} /\ presets \ {"java"} # {}
        \/ Cardinality(types) > 1
  IN (conflicting /\ pc # "new")
       => /\ pc = "exited"
          /\ exitCode = Some(1)
          /\ files = NoFiles
          /\ dirs = {}

\* --angular with --quarkus, in that order: the conflict is only seen after
\* the loop over the arguments.
C3_Witness ==
  /\ argv = <<"--angular", "--quarkus">>
  /\ pc = "exited"
  /\ exitCode = Some(1)
  /\ cliConfig.error = "framework-preset"

\* C4: the packages of the generated devbox.json are all allow-listed, and
\* a typed dependency that is neither allow-listed nor mapped by the alias
\* table to an allow-listed name is not among them, in workspace mode or not.
C4_OnlyAllowedPackages ==
  "devbox.json" \in DOMAIN files
    => LET packages == Range(files["devbox.json"].packages)
           deps == Range(ParseDependencies(StrOr(answers, "specificDependencies", "")))
           known(dep) ==
             \/ ToLowerCase(dep) \in allowedSystemPackages
             \/ /\ ToLowerCase(dep) \in DOMAIN pythonToSystem
                /\ pythonToSystem[ToLowerCase(dep)] \in allowedSystemPackages
       IN /\ packages \subseteq allowedSystemPackages
          /\ \A dep \in deps : ~known(dep) => {dep, ToLowerCase(dep)} \cap packages = {}

\* "ffmpeg-python, left-pad,,Docker" was typed: ffmpeg is there through the
\* alias table, left-pad is not.
C4_Witness ==
  /\ pc = "done" /\ fsError = Null
  /\ "left-pad" \in Range(ParseDependencies(StrOr(answers, "specificDependencies", "")))
  /\ "devbox.json" \in DOMAIN files
  /\ "ffmpeg" \in Range(files["devbox.json"].packages)
  /\ "left-pad" \notin Range(files["devbox.json"].packages)

\* C8: the flags --java --spring-boot --api-service --name demo --docker --db
\* resolve to the Java language with javaFramework spring-boot, project type
\* API service, repoName demo, createDockerfile and includeDbService true
\* and application port 8081; the Dockerfile is built from the JDK image and
\* the compose file has the db service.
C8_AllFlagsExample ==
  (/\ argv = <<"--java", "--spring-boot", "--api-service", "--name", "demo",
               "--docker", "--db">>
   /\ pc \in {"generate", "done"})
    => /\ answers["language"] = "Java (Spring Boot/Quarkus)"
       /\ getLanguageProfile(answers).isJava
       /\ getJavaFramework(answers) = Some("spring-boot")
       /\ answers["projectType"] = "API service"
       /\ answers["repoName"] = "demo"
       /\ answers["createDockerfile"] = TRUE
       /\ answers["includeDbService"] = TRUE
       /\ getDockerPort(answers) = 8080 + 1
       /\ (pc = "done" /\ fsError = Null)
            => /\ files["Dockerfile"].from = "eclipse-temurin:25-jdk"
               /\ files["Dockerfile"].expose = 8081
               /\ files["docker-compose.yml"].hostPort = 8081
               /\ files["docker-compose.yml"].db = TRUE

\* The project of that example, generated.
C8_Witness ==
  /\ argv = <<"--java", "--spring-boot", "--api-service", "--name", "demo",
              "--docker", "--db">>
  /\ pc = "done" /\ fsError = Null
  /\ answers["repoName"] = "demo"
  /\ files["Dockerfile"].build = "spring-boot"
  /\ files["docker-compose.yml"].db = TRUE

\* C9: with --quarkus or --spring-boot and no preset flag, the language is
\* Java, javaFramework is the framework of the flag, workspace mode is on
\* with the Java preset, and the base port is 8080.
C9_FrameworkFlagImpliesJava ==
  (/\ pc \in {"generate", "done"}
   /\ cliConfig.nonInteractive
   /\ cliConfig.javaFramework # Null
   /\ cliConfig.nxPreset = Null)
    => /\ answers["language"] = "Java (Spring Boot/Quarkus)"
       /\ getLanguageProfile(answers).isJava
       /\ getJavaFramework(answers) = cliConfig.javaFramework
       /\ answers["useNx"] = TRUE
       /\ answers["nxPreset"] = "Java"
       /\ getNormalizedNxPreset(answers) = "java"
       /\ getDockerBasePort(answers) = 8080

\* --quarkus alone, generated as a Java workspace with the Quarkus pom.xml.
C9_Witness ==
  /\ argv = <<"--quarkus">>
  /\ pc = "done" /\ fsError = Null
  /\ answers["nxPreset"] = "Java"
  /\ getJavaFramework(answers) = Some("quarkus")
  /\ files["apps/my-project/pom.xml"].variant = "quarkus"

C11_IneligibleDbIgnored ==
  (/\ pc = "done" /\ ~cliConfig.showHelp /\ cliConfig.nonInteractive
   /\ cliConfig.dbOverride = Some(TRUE)
   /\ ~shouldOfferDatabaseService(answers)
   /\ fsError = Null)
    => /\ exitCode = Null
       /\ "success" \in out
       /\ answers["createDockerfile"] => "warn:not-recommended" \in out
       /\ ~answers["createDockerfile"] => "warn:docker-disabled" \in out
       /\ answers["includeDbService"] = FALSE
       /\ "docker-compose.yml" \in DOMAIN files => ~files["docker-compose.yml"].db

\* --angular --db: the warning, and a compose file without the db service.
C11_Witness ==
  /\ argv = <<"--angular", "--db">>
  /\ pc = "done" /\ fsError = Null
  /\ "warn:not-recommended" \in out
  /\ "docker-compose.yml" \in DOMAIN files
  /\ ~files["docker-compose.yml"].db

\* C13: once the answers are resolved, by flags or by prompts,
\* includeDbService implies createDockerfile and shouldOfferDatabaseService();
\* the compose file has the db service only then; and after --no-db
\* includeDbService is false.
C13_DbOnlyWhenEligible ==
  pc \in {"generate", "done"} =>
    /\ Flag(answers, "includeDbService")
         => Flag(answers, "createDockerfile") /\ shouldOfferDatabaseService(answers)
    /\ ("docker-compose.yml" \in DOMAIN files /\ files["docker-compose.yml"].db)
         => /\ Flag(answers, "includeDbService")
            /\ Flag(answers, "createDockerfile")
            /\ shouldOfferDatabaseService(answers)
    /\ (cliConfig.nonInteractive /\ ~cliConfig.showHelp /\ cliConfig.dbOverride = Some(FALSE))
         => answers["includeDbService"] = FALSE

\* The database service opted into at the prompt of a Node workspace.
C13_Witness ==
  /\ pc = "done" /\ fsError = Null
  /\ ~cliConfig.nonInteractive
  /\ getNormalizedNxPreset(answers) = "node"
  /\ answers["includeDbService"] = TRUE
  /\ files["docker-compose.yml"].db

\* C15, as the code has it: the port of the Dockerfile's EXPOSE and of the
\* compose mapping is, in workspace mode, 4201 for the Angular preset, 3001
\* for React, 5174 for Vue, 3001 for Node and TypeScript, 8081 for Java and
\* 5001 for .NET, whatever the language; outside workspace mode it is 8081
\* for a Java language, 5001 for .NET, 8001 for Python and 3001 otherwise.
C15_DocumentedDockerPorts ==
  "Dockerfile" \in DOMAIN files =>
    LET preset == getNormalizedNxPreset(answers)
        language == IF Has(answers, "language") THEN answers["language"] ELSE ""
        port ==
          IF Has(answers, "useNx") /\ answers["useNx"]
            THEN CASE preset = "angular" -> 4201
                   [] preset = "react" -> 3001
                   [] preset = "vue" -> 5174
                   [] preset \in {"node", "typescript"} -> 3001
                   [] preset = "java" -> 8081
                   [] preset = "dotnet" -> 5001
          ELSE IF isJavaLanguage(answers) THEN 8081
          ELSE IF Includes(language, ".NET") THEN 5001
          ELSE IF Includes(language, "Python") THEN 8001
          ELSE 3001
    IN /\ files["Dockerfile"].expose = port
       /\ files["docker-compose.yml"].hostPort = port
       /\ files["docker-compose.yml"].containerPort = port

\* A Python project without a workspace: 8001 in both container files.
C15_Witness ==
  /\ pc = "done" /\ fsError = Null
  /\ "Dockerfile" \in DOMAIN files
  /\ answers["language"] = "Python" /\ ~answers["useNx"]
  /\ files["Dockerfile"].expose = 8001
  /\ files["docker-compose.yml"].hostPort = 8001

\* C15 as stated: every Python-language project has the Docker port 8001.
C15_PythonAlways8001 ==
  ("Dockerfile" \in DOMAIN files /\ Has(answers, "language")
     /\ answers["language"] = "Python")
    => files["Dockerfile"].expose = 8001

\* C16: at most one of useGeminiCLI, useClaudeCode and useCodexCLI is true
\* and at most one of .gemini.json, .claude.json and .codex.json is written;
\* on the non-interactive path none is.
C16_SingleAssistant ==
  LET selected == {k \in {"useGeminiCLI", "useClaudeCode", "useCodexCLI"} : Flag(answers, k)}
      written == {".gemini.json", ".claude.json", ".codex.json"} \cap DOMAIN files
  IN /\ Cardinality(selected) <= 1
     /\ Cardinality(written) <= 1
     /\ (cliConfig # Null /\ cliConfig.nonInteractive) => selected = {} /\ written = {}

\* The warnings of tryGenerateNxApplication, one for each way it gives up.
ToolingWarnings ==
  {"warn:no-generator", "warn:pnpm-missing", "warn:install-failed", "warn:generator-failed"}

\* C17: in workspace mode, whatever the external tooling did, a run that the
\* file system did not fail reports success and has written the remaining
\* artifacts; with automation on, either the generator succeeded or one
\* warning was printed, and after a warning the minimal scaffold is there:
\* apps/<slug>/project.json as the wizard writes it and the starter files of
\* the language.
C17_ToolingFailSoft ==
  (pc = "done" /\ fsError = Null /\ Flag(answers, "useNx")) =>
    LET appRoot == "apps/" \o getProjectSlug(answers)
        warned == out \cap ToolingWarnings
    IN /\ "success" \in out
       /\ {"devbox.json", "nx.json", "package.json"} \subseteq DOMAIN files
       /\ Flag(answers, "createDockerfile") => "Dockerfile" \in DOMAIN files
       /\ Flag(answers, "generateReadme") => "README.md" \in DOMAIN files
       /\ Cardinality(warned) <= 1
       /\ ~Flag(answers, "enableAutomation") => warned = {}
       /\ warned # {} =>
            /\ ProjectConfigPath(answers) \in DOMAIN files
            /\ files[ProjectConfigPath(answers)].json
            /\ files[ProjectConfigPath(answers)].serveExecutor
                 = getNxProjectConfig(answers).serveExecutor
            /\ DOMAIN createLanguageScaffold(answers, NoFiles, appRoot, TRUE)
                 \subseteq DOMAIN files
            /\ Join(appRoot, "src") \in dirs

\* `pnpm install` failed in the default TypeScript workspace: the warning,
\* the wizard's own project.json and main.ts, and the success report.
C17_Witness ==
  /\ pc = "done" /\ fsError = Null
  /\ "warn:install-failed" \in out
  /\ "success" \in out
  /\ "apps/my-project/project.json" \in DOMAIN files
  /\ "apps/my-project/src/main.ts" \in DOMAIN files
  /\ "Dockerfile" \in DOMAIN files

\* The step is the failing one or comes after it.
NotBefore(step, failed) == Position(failed) <= Position(step)

C20_FrameworkOnlyForJava ==
  /\ pc \in {"generate", "done"} /\ answers # NoAnswers => Has(answers, "javaFramework")
  /\ Has(answers, "javaFramework") =>
       /\ answers["javaFramework"] \in {Null, Some("spring-boot"), Some("quarkus")}
       /\ answers["javaFramework"] # Null => isJavaLanguage(answers)
       /\ ~isJavaLanguage(answers) =>
            answers["javaFramework"] = Null /\ getJavaFramework(answers) = Null

\* Prompts: the Java option, then Spring Boot at the framework prompt.
C20_Witness ==
  /\ pc = "done" /\ fsError = Null
  /\ argv = << >>
  /\ Has(answers, "javaFramework")
  /\ answers["javaFramework"] = Some("spring-boot")
  /\ answers["language"] = "Java (Spring Boot/Quarkus)"
  /\ isJavaLanguage(answers)

\* path.dirname of a path under the project directory ("" is the project
\* directory itself).
RECURSIVE DirName(_)
DirName(path) ==
  IF path = "" THEN ""
  ELSE IF SubSeq(path, Len(path), Len(path)) = "/" THEN SubSeq(path, 1, Len(path) - 1)
  ELSE DirName(SubSeq(path, 1, Len(path) - 1))

\* The directory and the directories above it.
RECURSIVE Ancestors(_)
Ancestors(dir) == IF dir = "" THEN {""} ELSE {dir} \cup Ancestors(DirName(dir))

\* The directories that exist once a call has returned: mkdirSync with
\* recursive creates the directories above, the generator creates the
\* directories of its files, a write creates none.
CreatedBy(fsCall) ==
  IF fsCall.op = "mkdir" THEN UNION {Ancestors(dir) : dir \in fsCall.paths}
  ELSE IF fsCall.op = "generator"
    THEN UNION {Ancestors(DirName(path)) : path \in fsCall.paths}
  ELSE {}

CreatedBefore(i) == UNION {CreatedBy(fsLog[j]) : j \in 1..(i - 1)}

\* C22: every write of a run goes into a directory that an earlier call of
\* the same run has created, on the workspace path and off it and for every
\* assistant selection; and the files of a finished run are those the
\* recorded calls wrote.
C22_DirectoryBeforeWrite ==
  /\ \A i \in DOMAIN fsLog :
       fsLog[i].op = "write" =>
         \A path \in fsLog[i].paths : DirName(path) \in CreatedBefore(i)
  /\ pc = "done" =>
       DOMAIN files = UNION {fsLog[i].paths : i \in {j \in DOMAIN fsLog : fsLog[j].op # "mkdir"}}

\* A workspace run with an assistant whose generator gave up: scripts is
\* created before the install script and nx-generate.sh are written into it,
\* and apps/my-project/src before the start file.
C22_Witness ==
  /\ pc = "done" /\ fsError = Null
  /\ "scripts/nx-generate.sh" \in DOMAIN files
  /\ "apps/my-project/src/main.ts" \in DOMAIN files
  /\ \E i, j \in DOMAIN fsLog :
       /\ i < j
       /\ fsLog[i] = Mkdir({"scripts"})
       /\ fsLog[j].op = "write" /\ "scripts/install-claude.sh" \in fsLog[j].paths

\* The commands of the generated script set: the scripts of devbox.json and
\* those of package.json when there is one.
ScriptSet ==
  {files["devbox.json"].scripts[name] : name \in DOMAIN files["devbox.json"].scripts}
  \cup (IF "package.json" \in DOMAIN files
          THEN {files["package.json"].scripts[name] :
                  name \in DOMAIN files["package.json"].scripts}
        ELSE {})

\* The command starts with the word or has it after a blank.
Invokes(command, word) ==
  StartsWith(command, word \o " ") \/ Includes(command, " " \o word \o " ")

\* C23: in workspace mode, whatever the language, the dev, build and test
\* scripts of devbox.json are `pnpm run dev|build|test`, the scripts of
\* package.json are `nx <target> <slug>`, and no command of the script set
\* runs cargo, mvn, dotnet or python; outside workspace mode no command of
\* the script set runs nx.
C23_OneToolchainPerScriptSet ==
  (pc = "done" /\ "devbox.json" \in DOMAIN files) =>
    IF Flag(answers, "useNx")
      THEN /\ files["devbox.json"].scripts["dev"] = "pnpm run dev"
           /\ files["devbox.json"].scripts["build"] = "pnpm run build"
           /\ files["devbox.json"].scripts["test"] = "pnpm run test"
           /\ "package.json" \in DOMAIN files =>
                LET scripts == files["package.json"].scripts
                    slug == getProjectSlug(answers)
                IN /\ DOMAIN scripts = {"build", "test", "lint", "dev", "start"}
                   /\ scripts["build"] = "nx build " \o slug
                   /\ scripts["test"] = "nx test " \o slug
                   /\ scripts["lint"] = "nx lint " \o slug
                   /\ scripts["dev"] = "nx serve " \o slug
                   /\ scripts["start"] = "nx serve " \o slug
           /\ fsError = Null => "package.json" \in DOMAIN files
           /\ \A command \in ScriptSet :
                \A tool \in {"cargo", "mvn", "dotnet", "python"} : ~Invokes(command, tool)
      ELSE \A command \in ScriptSet : ~Invokes(command, "nx")

\* A Java workspace: the wrappers in devbox.json, nx in package.json.
C23_Witness ==
  /\ pc = "done" /\ fsError = Null
  /\ Flag(answers, "useNx")
  /\ getLanguageProfile(answers).isJava
  /\ files["devbox.json"].scripts["build"] = "pnpm run build"
  /\ files["package.json"].scripts["build"] = "nx build my-project"

\* The scaffold the javaFramework answer stands for.
ResolvedJavaVariant ==
  IF Has(answers, "javaFramework") /\ answers["javaFramework"] # Null
    THEN answers["javaFramework"][1] ELSE "basic"

\* The dev and build commands of each scaffold.
JavaCommands ==
  [basic |-> [dev |-> "mvn -q -DskipTests package && java -jar target/app.jar",
              build |-> "mvn -q -DskipTests package"],
   spring_boot |-> [dev |-> "mvn spring-boot:run", build |-> "mvn -q -DskipTests package"],
   quarkus |-> [dev |-> "JAVA_TOOL_OPTIONS=\"-Dnet.bytebuddy.experimental=true\" "
                          \o "mvn quarkus:dev",
                build |-> "JAVA_TOOL_OPTIONS=\"-Dnet.bytebuddy.experimental=true\" "
                            \o "mvn -q -DskipTests package"]]

JavaCommandsOf(variant) ==
  IF variant = "spring-boot" THEN JavaCommands.spring_boot
  ELSE IF variant = "quarkus" THEN JavaCommands.quarkus
  ELSE JavaCommands.basic

C26_FlagsMeanWorkspace ==
  (cliConfig # Null /\ cliConfig.nonInteractive /\ answers # NoAnswers) =>
    /\ Flag(answers, "useNx")
    /\ Flag(answers, "enableAutomation")
    /\ Has(answers, "nxPreset") /\ answers["nxPreset"] \in Range(nxPresets)
    /\ (pc = "done" /\ fsError = Null) =>
         /\ {"nx.json", "pnpm-workspace.yaml"} \subseteq DOMAIN files
         /\ "scripts/build.sh" \notin DOMAIN files

\* --cli-tool alone: no preset flag, and a TypeScript workspace all the same.
C26_Witness ==
  /\ pc = "done" /\ fsError = Null
  /\ argv = <<"--cli-tool">>
  /\ answers["projectType"] = "CLI tool"
  /\ Flag(answers, "useNx")
  /\ answers["nxPreset"] = "TypeScript"
  /\ "nx.json" \in DOMAIN files

\* C28, as the spec states it: in a Java project the port of the local
\* (non-Docker) Swagger and OpenAPI URLs of README.md is the port the generated
\* application listens on when PORT is unset: DEFAULT_PORT of the basic
\* App.java, the default of server.port or of quarkus.http.port.
C28_ReadmePortIsDefaultPort ==
  (/\ pc = "done" /\ fsError = Null
   /\ "README.md" \in DOMAIN files
   /\ files["README.md"].java # Null) =>
     \A path \in DOMAIN files :
       "defaultPort" \in DOMAIN files[path] =>
         files[path].defaultPort = files["README.md"].java[1].localPort

\* C30: every run terminates.  A flag error exits with code 1 during parsing,
\* before anything is generated; a help run closes the prompt interface
\* without generating; every run that reaches generateProject closes the
\* prompt interface, on success, on a tool failure and on a caught
\* file-system error alike; and the interface is closed exactly once.
C30_EveryRunTerminates ==
  /\ <>(pc \in Ended)
  /\ (pc = "generate") ~> (pc = "done" /\ rlClosed = 1)
  /\ [][pc' # pc /\ pc \notin Ended]_vars
  /\ [](pc = "exited" => (exitCode = Some(1) /\ rlClosed = 0 /\ files = NoFiles))
  /\ [](pc = "done" => (rlClosed = 1 /\ exitCode = Null))
  /\ []((pc = "done" /\ cliConfig.showHelp) => (files = NoFiles /\ answers = NoAnswers))
  /\ [](rlClosed <= 1)

\* A run that asked its questions, hit a file-system error inside
\* generateProject and still closed the prompt interface, once.
C30_Witness ==
  /\ pc = "done"
  /\ cliConfig # Null /\ ~cliConfig.nonInteractive /\ ~cliConfig.showHelp
  /\ fsError # Null
  /\ "error:generate" \in out
  /\ rlClosed = 1

\* Where the scaffold of this run wrote a .NET project file.
WrittenCsproj == {path \in DOMAIN files : EndsWith(path, ".csproj")}

\* C29, as the spec states it: in a .NET project with a Dockerfile, in
\* workspace mode and outside it, the project file the Dockerfile restores,
\* builds and runs is the one the scaffold wrote.
C29_DockerfileUsesWrittenCsproj ==
  (/\ pc = "done" /\ fsError = Null
   /\ getLanguageProfile(answers).isDotnet
   /\ "Dockerfile" \in DOMAIN files
   /\ WrittenCsproj # {}) =>
     /\ files["Dockerfile"].buildInstructions.project # Null
     /\ files["Dockerfile"].buildInstructions.project[1] \in WrittenCsproj
     /\ "project" \in DOMAIN files["Dockerfile"].cmd =>
          files["Dockerfile"].cmd.project \in WrittenCsproj

(***************************************************************************)
(* getProjectSlug, called on its own and then on its own result            *)
(***************************************************************************)
MaxNameLen == 3

\* A letter of each case, a digit, the two marks a slug keeps, and two
\* characters it does not.
NameChars == {"a", "Z", "7", "-", "_", " ", "!"}

RECURSIVE StringsUpTo(_, _)
StringsUpTo(S, n) ==
  IF n = 0 THEN {""}
  ELSE LET shorter == StringsUpTo(S, n - 1)
       IN shorter \cup {q \o c : q \in {r \in shorter : Len(r) = n - 1}, c \in S}

RepoNames == StringsUpTo(NameChars, MaxNameLen) \cup {"my-project", "My App!"}

\* repoName is unset (Null) or one of the names.
SlugInit ==
  /\ call \in {Null} \cup {Some(name) : name \in RepoNames}
  /\ answers = IF call = Null THEN NoAnswers ELSE Put(NoAnswers, "repoName", call[1])
  /\ pc = "slug"
  /\ result = Null
  /\ argv = << >>
  /\ cliConfig = Null
  /\ files = NoFiles
  /\ dirs = {}
  /\ exitCode = Null
  /\ fsError = Null
  /\ fsLog = << >>
  /\ rlClosed = 0
  /\ out = {}
  /\ custom = 0

SlugOnce ==
  /\ pc = "slug"
  /\ result' = Some(getProjectSlug(answers))
  /\ pc' = "slugged"
  /\ UNCHANGED <<argv, call, cliConfig, answers, files, dirs, exitCode, fsError, fsLog, rlClosed, out, custom>>

\* The slug is taken as the repository name and the slug of that computed.
SlugAgain ==
  /\ pc = "slugged"
  /\ answers' = Put(answers, "repoName", result[1])
  /\ result' = Some(getProjectSlug(answers'))
  /\ pc' = "reslugged"
  /\ UNCHANGED <<argv, call, cliConfig, files, dirs, exitCode, fsError, fsLog, rlClosed, out, custom>>

SlugNext == SlugOnce \/ SlugAgain

SpecSlug == SlugInit /\ [][SlugNext]_vars

\* C5: getProjectSlug never returns the empty string, and applied to its
\* own result it returns that result.
C5_SlugIdempotentNonEmpty ==
  /\ pc \in {"slugged", "reslugged"} => result # Null /\ result[1] # ""
  /\ pc = "reslugged" => result[1] = answers["repoName"]

\* Nothing of "!-" survives: the slug is the fixed token, and so is its slug.
C5_Witness ==
  /\ pc = "reslugged"
  /\ call = Some("!-")
  /\ answers["repoName"] = "app"
  /\ result = Some("app")

(***************************************************************************)
(* A prompt with an option list, answered in three ways                    *)
(***************************************************************************)
\* Lines typed that are not the number of an option.
FreeTexts == {"3D engine", "2.5", "12 factor", "0", "9", "-1", "Go", " Deno "}

\* The decimal text of n, for 0 <= n <= 9.
NumberText(n) == Ch(DigitChars, n + 1)

\* A prompt, the number of one of its options, and a free text.
OptionInit ==
  /\ call \in UNION {{Some([prompt |-> prompt, n |-> n, text |-> text]) :
                        n \in 1..Len(OptionsOf(prompt)), text \in FreeTexts} :
                     prompt \in OptionPrompts}
  /\ pc = "option"
  /\ result = << >>
  /\ argv = << >>
  /\ cliConfig = Null
  /\ answers = NoAnswers
  /\ files = NoFiles
  /\ dirs = {}
  /\ exitCode = Null
  /\ fsError = Null
  /\ fsLog = << >>
  /\ rlClosed = 0
  /\ out = {}
  /\ custom = 0

Returned(value, next) ==
  /\ result' = Append(result, value)
  /\ pc' = next
  /\ UNCHANGED <<argv, call, cliConfig, answers, files, dirs, exitCode, fsError, fsLog, rlClosed, out, custom>>

\* The number of the option is typed: what run() stores.
AnswerByNumber ==
  /\ pc = "option"
  /\ Returned(OptionAnswers(call[1].prompt, NumberText(call[1].n), answers), "byNumber")

\* The text of the same option is typed: what run() stores.
AnswerByText ==
  /\ pc = "byNumber"
  /\ Returned(OptionAnswers(call[1].prompt, OptionsOf(call[1].prompt)[call[1].n], answers),
              "byText")

\* The free text is typed: the option run() takes it for.
AnswerFreeText ==
  /\ pc = "byText"
  /\ Returned(ChosenOption(call[1].prompt, call[1].text, answers), "free")

OptionNext == AnswerByNumber \/ AnswerByText \/ AnswerFreeText

SpecOption == OptionInit /\ [][OptionNext]_vars

\* C6: at every prompt with an option list, the number of an option and the
\* text of that option set the same answers.
C6_NumberAndTextAgree ==
  pc \in {"byText", "free"} => result[1] = result[2]

\* "7" and ".NET" at the preset prompt are both the .NET preset.
C6_Witness ==
  /\ pc = "byText"
  /\ call[1].prompt = "nxPreset" /\ call[1].n = 7
  /\ result[1] = ("nxPreset" :> ".NET")
  /\ result[2] = ("nxPreset" :> ".NET")

\* C7 as stated: a typed line that is not itself an integer between 1 and
\* the number of options comes back from normalizeOptionAnswer as the
\* trimmed line, whether it begins with digits or is a number out of range.
C7_FreeTextKept ==
  pc = "free"
    => LET text == Trim(call[1].text)
           isInteger == text # "" /\ \A i \in 1..Len(text) : IsDigit(Ch(text, i))
           isIndex == isInteger /\ DigitsValue(text, 0) \in 1..Len(OptionsOf(call[1].prompt))
       IN ~isIndex => result[3] = text

(***************************************************************************)
(* getLanguageProfile and shouldOfferDatabaseService, called on their own  *)
(***************************************************************************)
\* Language answers: unset, the six options, and free text that names no
\* family, one family in another spelling, or two families.
LanguageAnswers ==
  {Null} \cup {Some(languages[i]) : i \in DOMAIN languages}
  \cup {Some("Go"), Some("python"), Some("Python and Rust"), Some("Quarkus")}

ProjectTypeAnswers ==
  {Null} \cup {Some(projectTypes[i]) : i \in DOMAIN projectTypes} \cup {Some("REST API")}

NxPresetAnswers ==
  {Null} \cup {Some(nxPresets[i]) : i \in DOMAIN nxPresets} \cup {Some("Svelte")}

UseNxAnswers == {Null, Some(TRUE), Some(FALSE)}

\* The answers that hold exactly the keys that were given.
AnswersOf(language, projectType, useNx, nxPreset) ==
  LET a1 == IF language = Null THEN NoAnswers ELSE Put(NoAnswers, "language", language[1])
      a2 == IF projectType = Null THEN a1 ELSE Put(a1, "projectType", projectType[1])
      a3 == IF useNx = Null THEN a2 ELSE Put(a2, "useNx", useNx[1])
  IN IF nxPreset = Null THEN a3 ELSE Put(a3, "nxPreset", nxPreset[1])

ResolveInit ==
  /\ answers \in {AnswersOf(language, projectType, useNx, nxPreset) :
                    language \in LanguageAnswers, projectType \in ProjectTypeAnswers,
                    useNx \in UseNxAnswers, nxPreset \in NxPresetAnswers}
  /\ pc = "resolve"
  /\ call = Null
  /\ result = << >>
  /\ argv = << >>
  /\ cliConfig = Null
  /\ files = NoFiles
  /\ dirs = {}
  /\ exitCode = Null
  /\ fsError = Null
  /\ fsLog = << >>
  /\ rlClosed = 0
  /\ out = {}
  /\ custom = 0

ResolveProfile ==
  /\ pc = "resolve"
  /\ result' = Append(result, getLanguageProfile(answers))
  /\ pc' = "profiled"
  /\ UNCHANGED <<argv, call, cliConfig, answers, files, dirs, exitCode, fsError, fsLog, rlClosed,
                 out, custom>>

OfferDatabaseService ==
  /\ pc = "profiled"
  /\ result' = Append(result, shouldOfferDatabaseService(answers))
  /\ pc' = "offered"
  /\ UNCHANGED <<argv, call, cliConfig, answers, files, dirs, exitCode, fsError, fsLog, rlClosed,
                 out, custom>>

\* The workspace preset prompt of collectAnswers takes getDefaultNxPreset of
\* the answers as its default.
DefaultNxPreset ==
  /\ pc = "offered"
  /\ result' = Append(result, getDefaultNxPreset(answers))
  /\ pc' = "defaulted"
  /\ UNCHANGED <<argv, call, cliConfig, answers, files, dirs, exitCode, fsError, fsLog, rlClosed,
                 out, custom>>

ResolveNext == ResolveProfile \/ OfferDatabaseService \/ DefaultNxPreset

SpecResolve == ResolveInit /\ [][ResolveNext]_vars

\* C12, as the code has it: in workspace mode shouldOfferDatabaseService is
\* true exactly when the normalized preset is node, java or dotnet; outside
\* workspace mode it is true exactly when the profile is Java or .NET, or
\* the profile is JavaScript/TypeScript and the project type, in lower case,
\* contains "api".
C12_OfferedForBackends ==
  pc = "offered" =>
    LET profile == result[1]
        projectType == IF Has(answers, "projectType") THEN answers["projectType"] ELSE ""
    IN result[2] =
         IF Has(answers, "useNx") /\ answers["useNx"]
           THEN getNormalizedNxPreset(answers) \in {"node", "java", "dotnet"}
           ELSE \/ profile.isJava
                \/ profile.isDotnet
                \/ profile.isJsTs /\ Includes(ToLowerCase(projectType), "api")

\* A JavaScript/TypeScript API service without a workspace is offered the
\* database service.
C12_Witness ==
  /\ pc = "offered"
  /\ answers = AnswersOf(Some("JavaScript/TypeScript"), Some("API service"), Some(FALSE), Null)
  /\ result[2] = TRUE

\* C12 as stated: outside workspace mode an API service is offered the
\* database service whatever the language family.
C12_OfferedForAnyApiService ==
  (/\ pc = "offered"
   /\ ~(Has(answers, "useNx") /\ answers["useNx"])
   /\ Has(answers, "projectType") /\ answers["projectType"] = "API service")
    => result[2] = TRUE

\* The family flags of a profile that are true.
Families(profile) ==
  {family \in {"isJsTs", "isPython", "isRust", "isJava", "isDotnet"} : profile[family]}

CaseVariants(s) ==
  {ToLowerCase(s)}
  \cup {other[1] : other \in {l \in LanguageAnswers \ {Null} :
                                ToLowerCase(l[1]) = ToLowerCase(s)}}

\* C21: getLanguageProfile yields the same family flags for a language answer
\* and for every case variant of it.
C21_CaseInsensitiveProfile ==
  (pc \in {"profiled", "offered"} /\ Has(answers, "language")) =>
    \A other \in CaseVariants(answers["language"]) :
      Families(getLanguageProfile(Put(answers, "language", other))) = Families(result[1])

\* C27, as the spec states it: whenever isJavaLanguage classifies the language
\* answer as Java (the listed Java option, or free text such as "Java",
\* "java", "Spring Boot" or "Quarkus"), getDefaultNxPreset returns the Java
\* preset.  The code tests the language for the substring "Java (" only.
C27_JavaLanguageDefaultsToJavaPreset ==
  (pc = "defaulted" /\ isJavaLanguage(answers)) => result[3] = "Java"

(***************************************************************************)
(* generateEnvFile, applied to a project directory and then once more      *)
(***************************************************************************)
\* The handle in the answers: unset, empty, blank, or a name with or
\* without spaces around it.
Handles == {Null, Some(""), Some(" "), Some("octo"), Some(" octo "), Some("hub")}

\* The .env file found in the project directory: none, or its content.
ExistingEnvFiles ==
  {Null, Some(""), Some("A=1"), Some("A=1\n"), Some("GITHUB_USER=old\n"),
   Some("A=1\nGITHUB_USER=octo\n"), Some("MY_GITHUB_USER=x")}

EnvInit ==
  /\ call \in {Some([handle |-> handle, existing |-> existing]) :
                 handle \in Handles, existing \in ExistingEnvFiles}
  /\ answers = IF call[1].handle = Null THEN NoAnswers
               ELSE Put(NoAnswers, "githubUser", call[1].handle[1])
  /\ files = IF call[1].existing = Null THEN NoFiles
             ELSE (".env" :> [kind |-> "env", content |-> call[1].existing[1]])
  /\ pc = "env"
  /\ result = << >>
  /\ argv = << >>
  /\ cliConfig = Null
  /\ dirs = {}
  /\ exitCode = Null
  /\ fsError = Null
  /\ fsLog = << >>
  /\ rlClosed = 0
  /\ out = {}
  /\ custom = 0

\* result keeps the files as each application left them.
EnvOnce ==
  /\ pc = "env"
  /\ files' = generateEnvFile(answers, files)
  /\ result' = Append(result, files')
  /\ pc' = "written"
  /\ UNCHANGED <<argv, call, cliConfig, answers, dirs, exitCode, fsError, fsLog, rlClosed, out, custom>>

EnvAgain ==
  /\ pc = "written"
  /\ files' = generateEnvFile(answers, files)
  /\ result' = Append(result, files')
  /\ pc' = "rewritten"
  /\ UNCHANGED <<argv, call, cliConfig, answers, dirs, exitCode, fsError, fsLog, rlClosed, out, custom>>

EnvNext == EnvOnce \/ EnvAgain

SpecEnv == EnvInit /\ [][EnvNext]_vars

\* Whether the text has the line, ended by a line feed.
HasLine(text, line) ==
  \/ StartsWith(text, line \o "\n")
  \/ Includes(text, "\n" \o line \o "\n")

\* The handle as supplied: trimmed, '' when there is none.
SuppliedHandle == IF call[1].handle = Null THEN "" ELSE Trim(call[1].handle[1])

Generators == <<"devbox", "setup", "ai", "docker", "readme", "env", "requirements">>

\* The files after one generator has run on the files f.
GeneratorStep(step, a, f, tool, output) ==
  IF step = "devbox" THEN generateDevboxConfig(a, f)
  ELSE IF step = "setup"
    THEN (IF Flag(a, "useNx") THEN generateNxSetup(a, f, tool, output).files
          ELSE generateDevboxOnlySetup(a, f).files)
  ELSE IF step = "ai" THEN WriteAll(f, generateAIConfig(a))
  ELSE IF step = "docker"
    THEN (IF Flag(a, "createDockerfile") THEN WriteAll(f, generateDockerfile(a)) ELSE f)
  ELSE IF step = "readme"
    THEN (IF Flag(a, "generateReadme") THEN generateReadme(a, f) ELSE f)
  ELSE IF step = "env" THEN generateEnvFile(a, f)
  ELSE generateRequirementsFiles(a, f)

\* The files after the generators have run in the given order.
RECURSIVE GeneratedBy(_, _, _, _, _)
GeneratedBy(order, a, f, tool, output) ==
  IF order = << >> THEN f
  ELSE GeneratedBy(Tail(order), a, GeneratorStep(Head(order), a, f, tool, output),
                   tool, output)

\* Resolved configurations: those of --typescript and --user octo with the
\* language, workspace mode and dependencies answered at the prompts.
OrderLanguages == {"JavaScript/TypeScript", "Python", "Java (Spring Boot/Quarkus)"}

OrderDependencies == {"", "left-pad"}

OrderAnswers(language, useNx, deps) ==
  LET a == applyNonInteractiveDefaults(parseCliOptions(<<"--typescript", "--user=octo">>))
  IN Put(Put(Put(a, "language", language), "useNx", useNx), "specificDependencies", deps)

\* What the generator's commands do in the run: they fail, or they leave a
\* project.json behind.
OrderTools ==
  {[tool |-> "install-failed", output |-> NoOutput],
   [tool |-> "generated",
    output |-> [project |-> GeneratedProject(TRUE, Some("@nx/js:node"), Null),
                e2e |-> Null]]}

OrderInit ==
  /\ answers \in {OrderAnswers(language, useNx, deps) :
                    language \in OrderLanguages, useNx \in BOOLEAN,
                    deps \in OrderDependencies}
  /\ call \in {Some(t) : t \in IF Flag(answers, "useNx") THEN OrderTools
                                ELSE {[tool |-> "none", output |-> NoOutput]}}
  /\ pc = "generators"
  /\ result = [done |-> {}, beforeSetup |-> {}]
  /\ files = NoFiles
  /\ argv = << >>
  /\ cliConfig = Null
  /\ dirs = {"", "scripts"}
  /\ exitCode = Null
  /\ fsError = Null
  /\ fsLog = << >>
  /\ rlClosed = 0
  /\ out = {}
  /\ custom = 0

\* One generator that has not run yet runs.  Of the order, result keeps
\* the generators that have run and those that ran before the setup.
RunGenerator ==
  /\ pc = "generators"
  /\ \E step \in Range(Generators) \ result.done :
       /\ files' = GeneratorStep(step, answers, files, call[1].tool, call[1].output)
       /\ result' = [done |-> result.done \cup {step},
                     beforeSetup |-> IF step # "setup" /\ "setup" \notin result.done
                                       THEN result.beforeSetup \cup {step}
                                       ELSE result.beforeSetup]
  /\ pc' = IF result'.done = Range(Generators) THEN "generated" ELSE "generators"
  /\ UNCHANGED <<argv, call, cliConfig, answers, dirs, exitCode, fsError, fsLog, rlClosed,
                 out, custom>>

OrderNext == RunGenerator

SpecOrder == OrderInit /\ [][OrderNext]_vars

\* The files of the run when the generators run in the order of the source.
GeneratedInOrder == GeneratedBy(Generators, answers, NoFiles, call[1].tool, call[1].output)

\* generateRequirementsFiles has a package.json of the workspace to extend.
ExtendsWorkspaceManifest ==
  /\ Flag(answers, "useNx")
  /\ getLanguageProfile(answers).isJsTs
  /\ Len(ParseDependencies(StrOr(answers, "specificDependencies", ""))) > 0

\* C25: the generators leave the same files with the same contents in every
\* order, except the dependency manifests after the workspace setup: when
\* generateRequirementsFiles has dependencies to add to the package.json of
\* a workspace and runs before generateNxSetup has written it, the
\* package.json is left without them.
C25_OrderInsensitiveButManifest ==
  pc = "generated" =>
    IF ExtendsWorkspaceManifest /\ "requirements" \in result.beforeSetup
      THEN /\ files = Put(GeneratedInOrder, "package.json",
                          NxWorkspaceFiles(answers)["package.json"])
           /\ files # GeneratedInOrder
      ELSE files = GeneratedInOrder

\* The setup last but for the devbox configuration, outside workspace mode:
\* the same files.
C25_Witness ==
  /\ pc = "generated"
  /\ result.beforeSetup = {"requirements", "env", "readme", "docker", "ai"}
  /\ ~Flag(answers, "useNx")
  /\ {"package.json", "src/main.js", "devbox.json", "Dockerfile", ".env"}
       \subseteq DOMAIN files
  /\ files = GeneratedInOrder

\* C25 as stated: every order gives the files of the source order.
C25_OrderInsensitive == pc = "generated" => files = GeneratedInOrder

====
